---- MODULE Spec2Model ----
(***************************************************************************)
(* Model of the gremlin-go driver core: the channel based ResultSet        *)
(* (channelResultSet), the connection with its synchronized active-results *)
(* map, the reader task that dispatches response frames, and the          *)
(* DriverRemoteConnection with the connection pool of its client.          *)
(*                                                                         *)
(* The specifications share the variables and the ResultSet actions:       *)
(*   SpecRS    one ResultSet driven by a producer task (the reader's role) *)
(*             and a consumer task calling IsEmpty / one / All / Close;    *)
(*   Spec      one established connection, two callers that write a        *)
(*             request each and consume the results, and the reader task;  *)
(*   SpecConn  the life of one connection: the user task that creates and  *)
(*             closes it, the reader task, which can meet EOF, one caller. *)
(*   SpecDriver  one DriverRemoteConnection made from a caller's settings, *)
(*             the user task that submits on it and closes it, and the     *)
(*             connections of its pool, which can fail.                    *)
(*   SpecSession  handles and the session handles made from them with      *)
(*             CreateSession;                                              *)
(*   SpecClient  the requests written by the client of a handle and by a   *)
(*             Client made with NewClient;                                 *)
(*   SpecTx    transactions begun on handles, and Close of the handles;    *)
(*   SpecCodec  the GraphBinary serializer: values written and read back,  *)
(*             and buffers received and read;                              *)
(*   SpecMap   the synchronizedMap with its mutex, callers and the reader  *)
(*             task calling store / load / delete / size and the scan;     *)
(*   SpecShared  one ResultSet used by two consuming tasks at once;        *)
(*   SpecTraversal  a Traversal on a DriverRemoteConnection, the user task *)
(*             calling HasNext and Next on it and closing the handle.      *)
(***************************************************************************)
EXTENDS Integers, Sequences, FiniteSets, TLC

\* ------------------------------------------------------------------ bounds
\* capacity given to newChannelResultSetCapacity (defaultCapacity is 1000)
ChannelSize == 2
\* items the server (or the producer) delivers for one request, at most
MaxItems == 3
\* items in the data list of one response frame, at most
MaxBatch == 2
\* ResultSet calls made by the consumer task of SpecRS, at most
MaxOps == 3
\* HasNext and Next calls made on the Traversal of SpecTraversal, at most
MaxCalls == 3
\* handles (the first one and the sessions created from handles), at most
MaxHandles == 3
\* transactions made with Tx(), at most
MaxTx == 2
\* requests written by the clients of SpecSession, at most
MaxWritten == 2
\* largest MaximumConcurrentConnections a caller of SpecDriver asks for
MaxConnections == 2
\* requests submitted on the handle of SpecDriver, at most
MaxRequests == 2

\* ------------------------------------------------------------- the universe
RequestIds == {1, 2}
Callers == {"A", "B"}
Consumers == {"c1"}
Tasks == Callers \cup Consumers \cup {"producer", "reader", "user"}

\* the request id a caller of Spec supplies (the caller supplies the id)
requestID(t) == IF t = "A" THEN 1 ELSE 2

\* a value on the wire: plain, or a Traverser{bulk, value}
Plain(v) == [trav |-> FALSE, bulk |-> 0, value |-> v]
Trav(b, v) == [trav |-> TRUE, bulk |-> b, value |-> v]
\* a Result handed to addResult: a slice of values, or one non-slice value
ListResult(s) == [isList |-> TRUE, elems |-> s]
SingleResult(e) == [isList |-> FALSE, elems |-> <<e>>]
NoResult == ListResult(<<>>)
\* the frame the reader task holds: request id and status (its data is passed
\* on to addResult)
NoFrame == [id |-> 0, status |-> 0, data |-> <<>>]

VARIABLES
  \* channelResultSet, one per request id
  channel,        \* the buffered queue of Results
  closed,         \* closed flag; close(channel) is done in the same step
  err,            \* error of the ResultSet, "nil" when none
  waitSignal,     \* the registered wake-up channel: "nil" or the task that made it
  channelMux,     \* holder of channelMux, "free" when unlocked
  waitSignalMux,  \* holder of waitSignalMux, "free" when unlocked
  \* connection
  state,          \* connectionState
  internalMap,    \* synchronizedMap.internalMap: request id -> ResultSet (its id), 0 when absent
  protocolCloses, \* number of protocol.close() calls made
  sent,           \* request ids handed to the transport by protocol.write
  served,         \* per request id, the number of items the server has sent
  finished,       \* request ids whose terminal frame the server has sent
  frame,          \* the frame the reader task is handling
  \* tasks
  pc,             \* position of each task
  arg,            \* the Result passed to addResult
  pending,        \* the values addResult still has to send to the channel
  ret,            \* the function that called sendSignal
  isEmptyRet,     \* last return value of IsEmpty
  results,        \* the slice All() builds, and the value one() returned
  calls,          \* the ResultSet calls the consumer has made, in order
  panic,          \* "none", or the run-time panic that ended the program
  \* history
  enqueued,       \* per ResultSet, every value ever sent to its channel
  received,       \* per task, every value it took from a channel
  arrived,        \* per request id, the values of its frames in arrival order
  dropped,        \* request ids of frames dropped as unknown
  processed,      \* request ids whose terminal frame has been processed
  \* DriverRemoteConnection
  settings,       \* DriverRemoteConnectionSettings after the caller's configurations
  pool,           \* the loadBalancingPool of the client: its parameters and its connections
  driver,         \* the DriverRemoteConnection: isClosed
  journal,        \* history: what the last submit did and how many requests went out
  \* handles, sessions and transactions
  handles,        \* every DriverRemoteConnection made, in the order of creation
  txs,            \* the transactions: the handle each was made on, its flag, its session
  requests,       \* the requests the clients of the handles have written
  clientCloses,   \* the handles whose client.Close() was called, in the order of the calls
  client,         \* the Client made by NewClient: the session asked for and the one it has
  out,            \* the last call on a handle or transaction and what it returned
  \* GraphBinary
  codec,          \* the value written, the buffer, and what reading it back gave
  \* synchronizedMap
  syncMap,        \* the map, the holder of syncLock and the call each task is in
  \* Traversal
  traversal       \* t.results, the call in progress and what the calls returned

rsVars == <<channel, closed, err, waitSignal, channelMux, waitSignalMux>>
connVars == <<state, internalMap, protocolCloses, sent, served, finished, frame>>
taskVars == <<pc, arg, pending, ret, isEmptyRet, results, calls, panic>>
histVars == <<enqueued, received, arrived, dropped, processed>>
sessionVars == <<handles, txs, requests, clientCloses, client, out>>
driverVars == <<settings, pool, driver, journal, sessionVars, codec, syncMap, traversal>>
vars == <<rsVars, connVars, taskVars, histVars, driverVars>>

\* the ResultSet a task is operating on: the one its write returned, the one
\* the reader task loaded for the frame, the single one of SpecRS
cur(t) ==
  IF t \in Callers THEN requestID(t)
  ELSE IF t = "reader" /\ frame.id # 0 THEN frame.id
  ELSE 1

\* where a task continues when a ResultSet call returns
Return(t, op) ==
  IF t = "producer" THEN (IF op = "Close" THEN "p_done" ELSE "p_idle")
  ELSE IF t \in Consumers THEN "c_idle"
  ELSE IF t = "reader"
    THEN (IF op # "Close" THEN "h_added"
          ELSE IF frame.status = 0 THEN "failAll" ELSE "h_delete")
  ELSE IF op = "IsEmpty" THEN "HasNext"
  ELSE IF op = "one" THEN "IsEmpty"
  ELSE (IF op = "Close" THEN "Close_done" ELSE "All_done")

Running == panic = "none"

\* ------------------------------------------------------- channelResultSet
\* newChannelResultSetCapacity: empty channel, not closed, no error, no signal
newChannelResultSet ==
  /\ channel = [k \in RequestIds |-> <<>>]
  /\ closed = [k \in RequestIds |-> FALSE]
  /\ err = [k \in RequestIds |-> "nil"]
  /\ waitSignal = [k \in RequestIds |-> "nil"]
  /\ channelMux = [k \in RequestIds |-> "free"]
  /\ waitSignalMux = [k \in RequestIds |-> "free"]

\* the values addResult sends for r: the elements of a slice, a Traverser
\* element replaced by its value; a non-slice result is sent as it is
Unwrap(e) == IF e.trav THEN Plain(e.value) ELSE e
Flatten(r) ==
  IF r.isList THEN [i \in 1..Len(r.elems) |-> Unwrap(r.elems[i])] ELSE r.elems

\* sendSignal, from Lock to the test of waitSignal
sendSignal(t) ==
  LET k == cur(t) IN
  /\ Running /\ pc[t] = "sendSignal"
  /\ waitSignalMux[k] = "free"
  /\ IF waitSignal[k] = "nil"
       THEN /\ pc' = [pc EXCEPT ![t] = Return(t, ret[t])]
            /\ ret' = [ret EXCEPT ![t] = "none"]
            /\ channelMux' = IF ret[t] = "Close"
                               THEN [channelMux EXCEPT ![k] = "free"]
                               ELSE channelMux
            /\ UNCHANGED waitSignalMux
       ELSE /\ waitSignalMux' = [waitSignalMux EXCEPT ![k] = t]
            /\ pc' = [pc EXCEPT ![t] = "sendSignal_send"]
            /\ UNCHANGED <<channelMux, ret>>
  /\ UNCHANGED <<channel, closed, err, waitSignal, connVars, histVars,
                 arg, pending, isEmptyRet, results, calls, panic, driverVars>>

\* sendSignal, the unbuffered send: it completes when the task that made the
\* registered channel is receiving from it; then waitSignal = nil and Unlock.
\* The waiter returns from waitForSignal and calls IsEmpty again.
sendSignal_send(t) ==
  LET k == cur(t)
      w == waitSignal[k] IN
  /\ Running /\ pc[t] = "sendSignal_send"
  /\ w # "nil" /\ pc[w] = "waitForSignal_recv"
  /\ waitSignal' = [waitSignal EXCEPT ![k] = "nil"]
  /\ waitSignalMux' = [waitSignalMux EXCEPT ![k] = "free"]
  /\ channelMux' = IF ret[t] = "Close"
                     THEN [channelMux EXCEPT ![k] = "free"]
                     ELSE channelMux
  /\ pc' = [pc EXCEPT ![t] = Return(t, ret[t]), ![w] = "IsEmpty"]
  /\ ret' = [ret EXCEPT ![t] = "none"]
  /\ UNCHANGED <<channel, closed, err, connVars, histVars,
                 arg, pending, isEmptyRet, results, calls, panic, driverVars>>

\* waitForSignal: register a fresh channel under waitSignalMux, then receive
waitForSignal(t) ==
  LET k == cur(t) IN
  /\ Running /\ pc[t] = "waitForSignal"
  /\ waitSignalMux[k] = "free"
  /\ waitSignal' = [waitSignal EXCEPT ![k] = t]
  /\ pc' = [pc EXCEPT ![t] = "waitForSignal_recv"]
  /\ UNCHANGED <<channel, closed, err, channelMux, waitSignalMux, connVars, histVars,
                 arg, pending, ret, isEmptyRet, results, calls, panic, driverVars>>

\* IsEmpty that reports the queue as it is now: true whenever it holds no
\* item, also while the ResultSet is open
IsEmpty_snapshot(t) ==
  LET k == cur(t) IN
  /\ Running /\ pc[t] = "IsEmpty"
  /\ channelMux[k] = "free"
  /\ pc' = [pc EXCEPT ![t] = Return(t, "IsEmpty")]
  /\ isEmptyRet' = [isEmptyRet EXCEPT ![t] = IF Len(channel[k]) # 0 THEN "false"
                                                                   ELSE "true"]
  /\ UNCHANGED <<rsVars, connVars, histVars,
                 arg, pending, ret, results, calls, panic, driverVars>>

\* IsEmpty whose first test leaves out the closed flag
IsEmpty_noClosedTest(t) ==
  LET k == cur(t) IN
  /\ Running /\ pc[t] = "IsEmpty"
  /\ channelMux[k] = "free"
  /\ IF Len(channel[k]) = 0
       THEN /\ pc' = [pc EXCEPT ![t] = "waitForSignal"]
            /\ UNCHANGED isEmptyRet
       ELSE /\ pc' = [pc EXCEPT ![t] = Return(t, "IsEmpty")]
            /\ isEmptyRet' = [isEmptyRet EXCEPT ![t] = "false"]
  /\ UNCHANGED <<rsVars, connVars, histVars,
                 arg, pending, ret, results, calls, panic, driverVars>>

\* IsEmpty: Lock channelMux, test, Unlock
IsEmpty(t) ==
  LET k == cur(t) IN
  /\ Running /\ pc[t] = "IsEmpty"
  /\ channelMux[k] = "free"
  /\ IF Len(channel[k]) = 0 /\ ~closed[k]
       THEN /\ pc' = [pc EXCEPT ![t] = "waitForSignal"]
            /\ UNCHANGED isEmptyRet
       ELSE IF Len(channel[k]) # 0
         THEN /\ pc' = [pc EXCEPT ![t] = Return(t, "IsEmpty")]
              /\ isEmptyRet' = [isEmptyRet EXCEPT ![t] = "false"]
         ELSE /\ pc' = [pc EXCEPT ![t] = Return(t, "IsEmpty")]
              /\ isEmptyRet' = [isEmptyRet EXCEPT ![t] = "true"]
  /\ UNCHANGED <<rsVars, connVars, histVars,
                 arg, pending, ret, results, calls, panic, driverVars>>

\* Close without the test of closed
Close_noTest(t) ==
  /\ Running /\ pc[t] = "Close"
  /\ pc' = [pc EXCEPT ![t] = "Close_lock"]
  /\ UNCHANGED <<rsVars, connVars, histVars,
                 arg, pending, ret, isEmptyRet, results, calls, panic, driverVars>>

\* Close, the unlocked test of closed
Close(t) ==
  LET k == cur(t) IN
  /\ Running /\ pc[t] = "Close"
  /\ pc' = [pc EXCEPT ![t] = IF closed[k] THEN Return(t, "Close") ELSE "Close_lock"]
  /\ UNCHANGED <<rsVars, connVars, histVars,
                 arg, pending, ret, isEmptyRet, results, calls, panic, driverVars>>

\* Close, the locked part: closed = true, close(channel), then sendSignal
\* (channelMux stays held until sendSignal returns). Closing a closed
\* channel is a run-time panic.
Close_lock(t) ==
  LET k == cur(t) IN
  /\ Running /\ pc[t] = "Close_lock"
  /\ channelMux[k] = "free"
  /\ channelMux' = [channelMux EXCEPT ![k] = t]
  /\ IF closed[k]
       THEN /\ panic' = "close of closed channel"
            /\ UNCHANGED <<closed, pc, ret>>
       ELSE /\ closed' = [closed EXCEPT ![k] = TRUE]
            /\ pc' = [pc EXCEPT ![t] = "sendSignal"]
            /\ ret' = [ret EXCEPT ![t] = "Close"]
            /\ UNCHANGED panic
  /\ UNCHANGED <<channel, err, waitSignal, waitSignalMux, connVars, histVars,
                 arg, pending, isEmptyRet, results, calls, driverVars>>

\* addResult: Lock channelMux and work out what is to be sent
addResult(t) ==
  LET k == cur(t) IN
  /\ Running /\ pc[t] = "addResult"
  /\ channelMux[k] = "free"
  /\ channelMux' = [channelMux EXCEPT ![k] = t]
  /\ pending' = [pending EXCEPT ![t] = Flatten(arg[t])]
  /\ arg' = [arg EXCEPT ![t] = NoResult]
  /\ pc' = [pc EXCEPT ![t] = "addResult_send"]
  /\ UNCHANGED <<channel, closed, err, waitSignal, waitSignalMux, connVars, histVars,
                 ret, isEmptyRet, results, calls, panic, driverVars>>

\* addResult whose send gives up when the channel is full instead of blocking
addResult_send_dropWhenFull(t) ==
  LET k == cur(t) IN
  /\ Running /\ pc[t] = "addResult_send"
  /\ IF pending[t] = <<>>
       THEN /\ channelMux' = [channelMux EXCEPT ![k] = "free"]
            /\ pc' = [pc EXCEPT ![t] = "sendSignal"]
            /\ ret' = [ret EXCEPT ![t] = "addResult"]
            /\ UNCHANGED <<channel, pending, panic, enqueued>>
       ELSE IF closed[k]
         THEN /\ panic' = "send on closed channel"
              /\ UNCHANGED <<channel, channelMux, pc, ret, pending, enqueued>>
         ELSE /\ IF Len(channel[k]) < ChannelSize
                   THEN /\ channel' = [channel EXCEPT ![k] = Append(@, Head(pending[t]))]
                        /\ enqueued' = [enqueued EXCEPT ![k] = Append(@, Head(pending[t]))]
                   ELSE UNCHANGED <<channel, enqueued>>
              /\ pending' = [pending EXCEPT ![t] = Tail(@)]
              /\ UNCHANGED <<channelMux, pc, ret, panic>>
  /\ UNCHANGED <<closed, err, waitSignal, waitSignalMux, connVars,
                 received, arrived, dropped, processed,
                 arg, isEmptyRet, results, calls, driverVars>>

\* addResult: one channel send (it blocks while the channel is full, and
\* panics on a closed channel); after the last one Unlock and sendSignal
addResult_send(t) ==
  LET k == cur(t) IN
  /\ Running /\ pc[t] = "addResult_send"
  /\ IF pending[t] = <<>>
       THEN /\ channelMux' = [channelMux EXCEPT ![k] = "free"]
            /\ pc' = [pc EXCEPT ![t] = "sendSignal"]
            /\ ret' = [ret EXCEPT ![t] = "addResult"]
            /\ UNCHANGED <<channel, pending, panic, enqueued>>
       ELSE IF closed[k]
         THEN /\ panic' = "send on closed channel"
              /\ UNCHANGED <<channel, channelMux, pc, ret, pending, enqueued>>
         ELSE /\ Len(channel[k]) < ChannelSize
              /\ channel' = [channel EXCEPT ![k] = Append(@, Head(pending[t]))]
              /\ enqueued' = [enqueued EXCEPT ![k] = Append(@, Head(pending[t]))]
              /\ pending' = [pending EXCEPT ![t] = Tail(@)]
              /\ UNCHANGED <<channelMux, pc, ret, panic>>
  /\ UNCHANGED <<closed, err, waitSignal, waitSignalMux, connVars,
                 received, arrived, dropped, processed,
                 arg, isEmptyRet, results, calls, driverVars>>

\* one: a single receive; a closed and drained channel yields nil
one(t) ==
  LET k == cur(t) IN
  /\ Running /\ pc[t] = "one"
  /\ \/ /\ Len(channel[k]) > 0
        /\ channel' = [channel EXCEPT ![k] = Tail(@)]
        /\ results' = [results EXCEPT ![t] = <<Head(channel[k])>>]
        /\ received' = [received EXCEPT ![t] = Append(@, Head(channel[k]))]
     \/ /\ Len(channel[k]) = 0 /\ closed[k]
        /\ results' = [results EXCEPT ![t] = <<>>]
        /\ UNCHANGED <<channel, received>>
  /\ pc' = [pc EXCEPT ![t] = Return(t, "one")]
  /\ UNCHANGED <<closed, err, waitSignal, channelMux, waitSignalMux, connVars,
                 enqueued, arrived, dropped, processed,
                 arg, pending, ret, isEmptyRet, calls, panic, driverVars>>

\* All: range over the channel until it is closed and drained
All(t) ==
  LET k == cur(t) IN
  /\ Running /\ pc[t] = "All"
  /\ \/ /\ Len(channel[k]) > 0
        /\ channel' = [channel EXCEPT ![k] = Tail(@)]
        /\ results' = [results EXCEPT ![t] = Append(@, Head(channel[k]))]
        /\ received' = [received EXCEPT ![t] = Append(@, Head(channel[k]))]
        /\ UNCHANGED pc
     \/ /\ Len(channel[k]) = 0 /\ closed[k]
        /\ pc' = [pc EXCEPT ![t] = Return(t, "All")]
        /\ UNCHANGED <<channel, results, received>>
  /\ UNCHANGED <<closed, err, waitSignal, channelMux, waitSignalMux, connVars,
                 enqueued, arrived, dropped, processed,
                 arg, pending, ret, isEmptyRet, calls, panic, driverVars>>

ResultSetStep(t) ==
  \/ sendSignal(t) \/ sendSignal_send(t) \/ waitForSignal(t)
  \/ IsEmpty(t) \/ Close(t) \/ Close_lock(t)
  \/ addResult(t) \/ addResult_send(t)
  \/ one(t) \/ All(t)

\* ------------------------------------------------------------------ SpecRS
\* the Results the producer can add next: a non-slice value, an empty slice,
\* or a slice of plain values and Traversers
ValueAt(k, n) == <<k, n>>
ResultsFrom(k, n) ==
  {SingleResult(Plain(ValueAt(k, n + 1))), NoResult}
  \cup {ListResult(<<Trav(b, ValueAt(k, n + 1))>>) : b \in {1, 2}}
  \cup (IF n + 2 <= MaxItems /\ MaxBatch >= 2
          THEN {ListResult(<<Plain(ValueAt(k, n + 1)), Trav(1, ValueAt(k, n + 2))>>)}
          ELSE {})
Size(r) == Len(r.elems)

\* the producer adds a Result, as the reader does for a frame that carries data
p_add ==
  /\ Running /\ pc["producer"] = "p_idle"
  /\ \E r \in ResultsFrom(1, served[1]) :
       /\ arg' = [arg EXCEPT !["producer"] = r]
       /\ served' = [served EXCEPT ![1] = @ + Size(r)]
  /\ served[1] < MaxItems
  /\ pc' = [pc EXCEPT !["producer"] = "addResult"]
  /\ UNCHANGED <<rsVars, state, internalMap, protocolCloses, sent, finished, frame,
                 histVars, pending, ret, isEmptyRet, results, calls, panic, driverVars>>

\* the producer ends the ResultSet, as the reader does for a terminal frame:
\* without error, or with the error set first
p_close ==
  /\ Running /\ pc["producer"] = "p_idle"
  /\ \E e \in {"nil", "error"} : err' = [err EXCEPT ![1] = e]
  /\ finished' = finished \cup {1}
  /\ pc' = [pc EXCEPT !["producer"] = "Close"]
  /\ UNCHANGED <<channel, closed, waitSignal, channelMux, waitSignalMux,
                 state, internalMap, protocolCloses, sent, served, frame,
                 histVars, arg, pending, ret, isEmptyRet, results, calls, panic, driverVars>>

\* the consumer makes its next ResultSet call
c_call ==
  \E t \in Consumers :
    /\ Running /\ pc[t] = "c_idle"
    /\ Len(calls[t]) < MaxOps
    /\ \E op \in {"IsEmpty", "one", "All", "Close"} :
         /\ pc' = [pc EXCEPT ![t] = op]
         /\ calls' = [calls EXCEPT ![t] = Append(@, op)]
    /\ results' = [results EXCEPT ![t] = <<>>]
    /\ isEmptyRet' = [isEmptyRet EXCEPT ![t] = "none"]
    /\ UNCHANGED <<rsVars, connVars, histVars, arg, pending, ret, panic, driverVars>>

\* no DriverRemoteConnection has been made
NoPool == [connections |-> <<>>, newConnectionThreshold |-> 0, maximum |-> 0, opened |-> 0,
           resultSets |-> <<>>]
NoLast == [op |-> "none", wasClosed |-> FALSE, outcome |-> "none", conn |-> 0,
           opened |-> FALSE, connState |-> "none", before |-> NoPool]
NoDriver ==
  /\ settings = [Session |-> "", NewConnectionThreshold |-> 0,
                 MaximumConcurrentConnections |-> 0, InitialConcurrentConnections |-> 0]
  /\ pool = NoPool
  /\ driver = [isClosed |-> FALSE, closes |-> 0]
  /\ journal = [last |-> NoLast, sent |-> 0, submits |-> 0]
\* no handle made, no call made on one
NoOut == [op |-> "none", h |-> 0, tx |-> 0, ids |-> <<>>, err |-> "nil", made |-> 0]
NoSession ==
  /\ handles = <<>>
  /\ txs = <<>>
  /\ requests = {}
  /\ clientCloses = <<>>
  /\ client = [made |-> FALSE, configured |-> "", Session |-> ""]
  /\ out = NoOut
\* nothing written, nothing read
NoCodec == codec = [step |-> "off"]
NoMap == syncMap = [step |-> "off"]
\* a Traversal just made: t.results is the nil pointer, nothing submitted
NoResults == [isNil |-> TRUE, rs |-> 0]
NoTraversal ==
  traversal = [results |-> NoResults, call |-> "none", calls |-> 0, err |-> "nil",
               ret |-> "none", submits |-> 0, submitErr |-> "none"]

TaskInit(active, start) ==
  /\ pc = [t \in Tasks |-> IF t \in active THEN start[t] ELSE "off"]
  /\ arg = [t \in Tasks |-> NoResult]
  /\ pending = [t \in Tasks |-> <<>>]
  /\ ret = [t \in Tasks |-> "none"]
  /\ isEmptyRet = [t \in Tasks |-> "none"]
  /\ results = [t \in Tasks |-> <<>>]
  /\ calls = [t \in Tasks |-> <<>>]
  /\ panic = "none"
  /\ enqueued = [k \in RequestIds |-> <<>>]
  /\ received = [t \in Tasks |-> <<>>]
  /\ arrived = [k \in RequestIds |-> <<>>]
  /\ dropped = {}
  /\ processed = {}
  /\ protocolCloses = 0
  /\ sent = {}
  /\ served = [k \in RequestIds |-> 0]
  /\ finished = {}
  /\ frame = NoFrame

\* one ResultSet, just made, with a producer and a consumer
InitRS ==
  /\ newChannelResultSet /\ NoDriver /\ NoSession /\ NoCodec /\ NoMap /\ NoTraversal
  /\ TaskInit({"producer"} \cup Consumers,
              [t \in Tasks |-> IF t = "producer" THEN "p_idle" ELSE "c_idle"])
  /\ state = "established"
  /\ internalMap = [k \in RequestIds |-> IF k = 1 THEN 1 ELSE 0]

RSOps == \E t \in Consumers \cup {"producer"} : ResultSetStep(t)

NextRS == p_add \/ p_close \/ c_call \/ RSOps

SpecRS == InitRS /\ [][NextRS]_vars

\* every task that can take a step of a ResultSet call eventually takes it
\* (the scheduler runs every runnable goroutine); what the producer and the
\* consumer choose to call next is left free
FairSpecRS ==
  SpecRS /\ \A t \in Consumers \cup {"producer"} : WF_vars(ResultSetStep(t))

\* -------------------------------------------------------------- connection
\* synchronizedMap: each call runs under syncLock, so it is one step
store(m, key, value) == [m EXCEPT ![key] = value]
load(m, key) == m[key]
\* a delete that leaves the entry in place
delete_keeps(m, key) == m
delete(m, key) == [m EXCEPT ![key] = 0]
\* a size that counts every key, the removed ones too
size_countsRemoved(m) == Cardinality(DOMAIN m)
size(m) == Cardinality({key \in DOMAIN m : m[key] # 0})
\* synchronizedRange keeps syncLock for the whole scan: the reader task holds
\* it from the start of its scan until the last ResultSet has been handled
syncLock ==
  IF pc["reader"] = "failAll" \/ (frame.id # 0 /\ frame.status = 0)
    THEN "reader" ELSE "free"

\* the values a frame carries: the value of each traverser of its data
Values(f) == [i \in 1..Len(f.data) |-> Plain(f.data[i].value)]

\* createConnection: the connection starts initialized with an empty map;
\* newGremlinServerWSProtocol either connects (the reader task starts and the
\* connection is established) or fails (closedDueToError, no connection is
\* returned)
createConnection ==
  /\ Running /\ pc["user"] = "createConnection"
  /\ \/ /\ state' = "established"
        /\ pc' = [pc EXCEPT !["user"] = "u_idle", !["reader"] = "read"]
     \/ /\ state' = "closedDueToError"
        /\ pc' = [pc EXCEPT !["user"] = "u_failed"]
  /\ UNCHANGED <<rsVars, internalMap, protocolCloses, sent, served, finished, frame,
                 histVars, arg, pending, ret, isEmptyRet, results, calls, panic, driverVars>>

\* a close that calls protocol.close() whatever the state is
close_noStateTest ==
  /\ Running
  /\ \/ /\ pc["user"] \in {"u_idle", "close_done", "close_error"}
        /\ pc' = [pc EXCEPT !["user"] = "close_protocol"]
        /\ ret' = [ret EXCEPT !["user"] = "none"]
        /\ UNCHANGED <<state, protocolCloses>>
     \/ /\ pc["user"] = "close_protocol"
        /\ protocolCloses' = protocolCloses + 1
        /\ \E e \in {"nil", "closeError"} : ret' = [ret EXCEPT !["user"] = e]
        /\ pc' = [pc EXCEPT !["user"] = "close_state"]
        /\ UNCHANGED state
     \/ /\ pc["user"] = "close_state"
        /\ state' = "closed"
        /\ pc' = [pc EXCEPT !["user"] = "close_done"]
        /\ UNCHANGED <<protocolCloses, ret>>
  /\ UNCHANGED <<rsVars, internalMap, sent, served, finished, frame,
                 histVars, arg, pending, isEmptyRet, results, calls, panic, driverVars>>

\* connection.close(): the test of the state, which returns err0101 when the
\* connection is not established; protocol.close(), whose error (or nil) is
\* what close returns; state = closed. The user can call it again.
close ==
  /\ Running
  /\ \/ /\ pc["user"] \in {"u_idle", "close_done", "close_error"}
        /\ pc' = [pc EXCEPT !["user"] = IF state # "established"
                                          THEN "close_error" ELSE "close_protocol"]
        /\ ret' = [ret EXCEPT !["user"] = IF state # "established" THEN "err0101" ELSE "none"]
        /\ UNCHANGED <<state, protocolCloses>>
     \/ /\ pc["user"] = "close_protocol"
        /\ protocolCloses' = protocolCloses + 1
        /\ \E e \in {"nil", "closeError"} : ret' = [ret EXCEPT !["user"] = e]
        /\ pc' = [pc EXCEPT !["user"] = "close_state"]
        /\ UNCHANGED state
     \/ /\ pc["user"] = "close_state"
        /\ state' = "closed"
        /\ pc' = [pc EXCEPT !["user"] = "close_done"]
        /\ UNCHANGED <<protocolCloses, ret>>
  /\ UNCHANGED <<rsVars, internalMap, sent, served, finished, frame,
                 histVars, arg, pending, isEmptyRet, results, calls, panic, driverVars>>

\* connection.errorCallback(): state = closedDueToError, then protocol.close()
errorCallback ==
  /\ Running
  /\ \/ /\ pc["reader"] = "errorCallback"
        /\ state' = "closedDueToError"
        /\ pc' = [pc EXCEPT !["reader"] = "errorCallback_close"]
        /\ UNCHANGED protocolCloses
     \/ /\ pc["reader"] = "errorCallback_close"
        /\ protocolCloses' = protocolCloses + 1
        /\ pc' = [pc EXCEPT !["reader"] = "r_done"]
        /\ UNCHANGED state
  /\ UNCHANGED <<rsVars, internalMap, sent, served, finished, frame,
                 histVars, arg, pending, ret, isEmptyRet, results, calls, panic, driverVars>>

\* protocol.write: the request goes out on the transport, or the write fails;
\* it fails when the transport has been closed
protocolWrite(k) ==
  \/ /\ protocolCloses = 0
     /\ sent' = sent \cup {k}
  \/ /\ sent' = sent

\* connection.write that hands the request to protocol.write first and
\* stores the ResultSet afterwards
write_protocolFirst(t) ==
  LET k == requestID(t) IN
  /\ Running
  /\ \/ /\ pc[t] = "write"
        /\ pc["user"] \notin {"createConnection", "u_failed"}
        /\ protocolWrite(k)
        /\ pc' = [pc EXCEPT ![t] = IF k \in sent' THEN "write_protocol" ELSE "w_failed"]
        /\ UNCHANGED internalMap
     \/ /\ pc[t] = "write_protocol"
        /\ syncLock = "free"
        /\ internalMap' = store(internalMap, k, k)
        /\ pc' = [pc EXCEPT ![t] = "w_written"]
        /\ UNCHANGED sent
  /\ UNCHANGED <<rsVars, state, protocolCloses, served, finished, frame,
                 histVars, arg, pending, ret, isEmptyRet, results, calls, panic, driverVars>>

\* connection.write that marks the connection closedDueToError when
\* protocol.write fails
write_failureClosesConnection(t) ==
  LET k == requestID(t) IN
  /\ Running
  /\ \/ /\ pc[t] = "write"
        /\ pc["user"] \notin {"createConnection", "u_failed"}
        /\ syncLock = "free"
        /\ internalMap' = store(internalMap, k, k)
        /\ pc' = [pc EXCEPT ![t] = "write_protocol"]
        /\ UNCHANGED <<sent, state>>
     \/ /\ pc[t] = "write_protocol"
        /\ protocolWrite(k)
        /\ pc' = [pc EXCEPT ![t] = IF k \in sent' THEN "w_written" ELSE "w_failed"]
        /\ state' = IF k \in sent' THEN state ELSE "closedDueToError"
        /\ UNCHANGED internalMap
  /\ UNCHANGED <<rsVars, protocolCloses, served, finished, frame,
                 histVars, arg, pending, ret, isEmptyRet, results, calls, panic, driverVars>>

\* connection.write: make the ResultSet and store it under the request id,
\* then protocol.write; the ResultSet is returned with protocol.write's error
write(t) ==
  LET k == requestID(t) IN
  /\ Running
  /\ \/ /\ pc[t] = "write"
        /\ pc["user"] \notin {"createConnection", "u_failed"}
        /\ syncLock = "free"
        /\ internalMap' = store(internalMap, k, k)
        /\ pc' = [pc EXCEPT ![t] = "write_protocol"]
        /\ UNCHANGED sent
     \/ /\ pc[t] = "write_protocol"
        /\ protocolWrite(k)
        /\ pc' = [pc EXCEPT ![t] = IF k \in sent' THEN "w_written" ELSE "w_failed"]
        /\ UNCHANGED internalMap
  /\ UNCHANGED <<rsVars, state, protocolCloses, served, finished, frame,
                 histVars, arg, pending, ret, isEmptyRet, results, calls, panic, driverVars>>

\* the caller consumes the ResultSet it was given: All() as Traversal.ToList
\* does, IsEmpty() and one() in turn as Traversal.HasNext and Traversal.Next
\* do, or an explicit Close()
consume(t) ==
  /\ Running /\ pc[t] = "w_written"
  /\ \E op \in {"All", "IsEmpty", "Close"} : pc' = [pc EXCEPT ![t] = op]
  /\ UNCHANGED <<rsVars, connVars, histVars,
                 arg, pending, ret, isEmptyRet, results, calls, panic, driverVars>>

\* Traversal.Next: when IsEmpty returned false take one value and ask again,
\* when it returned true there is nothing more to take
Next_(t) ==
  /\ Running /\ pc[t] = "HasNext"
  /\ pc' = [pc EXCEPT ![t] = IF isEmptyRet[t] = "false" THEN "one" ELSE "Next_done"]
  /\ isEmptyRet' = [isEmptyRet EXCEPT ![t] = "none"]
  /\ UNCHANGED <<rsVars, connVars, histVars,
                 arg, pending, ret, results, calls, panic, driverVars>>

\* the error Traversal.ToList returns after All(): always nil
ToListError(t) == "nil"

\* the frames the server can send next for request k: partial frames with
\* data, a final frame (200 with or without data, 204 without), or an error
ServerFrames(k) ==
  LET room == MaxItems - served[k]
      top == IF room < MaxBatch THEN room ELSE MaxBatch
      Data(n) == [i \in 1..n |-> Trav(1, ValueAt(k, served[k] + i))]
  IN  {[id |-> k, status |-> 206, data |-> Data(n)] : n \in 1..top}
      \cup {[id |-> k, status |-> 200, data |-> Data(n)] : n \in 0..top}
      \cup {[id |-> k, status |-> 204, data |-> <<>>],
            [id |-> k, status |-> 500, data |-> <<>>]}

\* the reader task: transport.read() delivers the next frame, which is
\* looked up in the map by its request id and dispatched on its status (an
\* unknown id is dropped)
read ==
  /\ Running /\ pc["reader"] = "read"
  /\    /\ protocolCloses = 0
        /\ \E k \in sent \ finished : \E f \in ServerFrames(k) :
             /\ frame' = IF load(internalMap, k) = 0 THEN NoFrame
                                                ELSE [f EXCEPT !.data = <<>>]
             /\ served' = [served EXCEPT ![k] = @ + Len(f.data)]
             /\ finished' = IF f.status = 206 THEN finished ELSE finished \cup {k}
             /\ arrived' = [arrived EXCEPT ![k] = @ \o Values(f)]
             /\ IF load(internalMap, k) = 0
                  THEN /\ dropped' = dropped \cup {k}
                       /\ UNCHANGED <<pc, arg, err>>
                  ELSE /\ UNCHANGED dropped
                       /\ IF f.status \in {200, 204, 206}
                            THEN /\ arg' = [arg EXCEPT !["reader"] = ListResult(f.data)]
                                 /\ pc' = [pc EXCEPT !["reader"] = "addResult"]
                                 /\ UNCHANGED err
                            ELSE /\ err' = [err EXCEPT ![load(internalMap, k)] = "serverError"]
                                 /\ pc' = [pc EXCEPT !["reader"] = "Close"]
                                 /\ UNCHANGED arg
  /\ UNCHANGED <<channel, closed, waitSignal, channelMux, waitSignalMux,
                 state, internalMap, protocolCloses, sent,
                 enqueued, received, processed,
                 pending, ret, isEmptyRet, results, calls, panic, driverVars>>

\* the reader task: transport.read() fails on a transport that is still open
\* (EOF, read error); the reader fails the live ResultSets and then calls
\* the connection's error callback
readError ==
  /\ Running /\ pc["reader"] = "read"
  /\ protocolCloses = 0
  /\ pc' = [pc EXCEPT !["reader"] = "failAll"]
  /\ UNCHANGED <<rsVars, connVars, histVars,
                 arg, pending, ret, isEmptyRet, results, calls, panic, driverVars>>

\* the reader task fails every ResultSet of the map with the transport
\* error: one synchronizedRange over the map that sets the error of each
\* ResultSet and closes it; after the last one the error callback is called
failAll ==
  /\ Running /\ pc["reader"] = "failAll"
  /\ LET todo == {k \in RequestIds : load(internalMap, k) # 0
                                      /\ err[load(internalMap, k)] # "transportError"}
     IN IF todo = {}
          THEN /\ pc' = [pc EXCEPT !["reader"] = "errorCallback"]
               /\ frame' = NoFrame
               /\ UNCHANGED err
          ELSE \E k \in todo :
                 /\ err' = [err EXCEPT ![load(internalMap, k)] = "transportError"]
                 /\ frame' = [id |-> k, status |-> 0, data |-> <<>>]
                 /\ pc' = [pc EXCEPT !["reader"] = "Close"]
  /\ UNCHANGED <<channel, closed, waitSignal, channelMux, waitSignalMux,
                 state, internalMap, protocolCloses, sent, served, finished,
                 histVars, arg, pending, ret, isEmptyRet, results, calls, panic, driverVars>>

\* the reader task ends when the transport has been closed by protocol.close()
readClosed ==
  /\ Running /\ pc["reader"] = "read"
  /\ protocolCloses > 0
  /\ pc' = [pc EXCEPT !["reader"] = "r_done"]
  /\ UNCHANGED <<rsVars, connVars, histVars,
                 arg, pending, ret, isEmptyRet, results, calls, panic, driverVars>>

\* the reader task after addResult: a partial frame keeps the entry; a final
\* frame closes the ResultSet
handled ==
  /\ Running /\ pc["reader"] = "h_added"
  /\ pc' = [pc EXCEPT !["reader"] = IF frame.status = 206 THEN "read" ELSE "Close"]
  /\ frame' = IF frame.status = 206 THEN NoFrame ELSE frame
  /\ UNCHANGED <<rsVars, state, internalMap, protocolCloses, sent, served, finished,
                 histVars,
                 arg, pending, ret, isEmptyRet, results, calls, panic, driverVars>>

\* the reader task after Close: the entry of a terminal frame is removed
remove ==
  /\ Running /\ pc["reader"] = "h_delete"
  /\ internalMap' = delete(internalMap, frame.id)
  /\ processed' = processed \cup {frame.id}
  /\ pc' = [pc EXCEPT !["reader"] = "read"]
  /\ frame' = NoFrame
  /\ UNCHANGED <<rsVars, state, protocolCloses, sent, served, finished,
                 enqueued, received, arrived, dropped,
                 arg, pending, ret, isEmptyRet, results, calls, panic, driverVars>>

\* an established connection as createConnection returns it (empty map,
\* reader task started), and two callers with a request each
Init ==
  /\ newChannelResultSet /\ NoDriver /\ NoSession /\ NoCodec /\ NoMap /\ NoTraversal
  /\ TaskInit(Callers \cup {"reader"},
              [t \in Tasks |-> IF t = "reader" THEN "read" ELSE "write"])
  /\ state = "established"
  /\ internalMap = [k \in RequestIds |-> 0]

Writes == \E t \in Callers : write(t)
Consumes == \E t \in Callers : consume(t) \/ Next_(t)
ConnOps == \E t \in Callers \cup {"reader"} : ResultSetStep(t)

Next == Writes \/ Consumes \/ read \/ handled \/ remove \/ ConnOps

Spec == Init /\ [][Next]_vars

\* a connection under construction, the user task that creates it and later
\* closes it, the reader task, and one caller
InitConn ==
  /\ newChannelResultSet /\ NoDriver /\ NoSession /\ NoCodec /\ NoMap /\ NoTraversal
  /\ TaskInit({"A", "user"},
              [t \in Tasks |-> IF t = "user" THEN "createConnection" ELSE "write"])
  /\ state = "initialized"
  /\ internalMap = [k \in RequestIds |-> 0]

NextConn ==
  \/ createConnection \/ close \/ errorCallback
  \/ readError \/ failAll \/ readClosed
  \/ Writes \/ Consumes \/ read \/ handled \/ remove \/ ConnOps

SpecConn == InitConn /\ [][NextConn]_vars

\* the reader task and the caller take every step of a ResultSet call, of the
\* scan and of the error callback that they can take (the scheduler runs
\* every runnable goroutine), and a caller that has its answer from IsEmpty
\* goes on; when the transport fails and what the caller calls is left free
FairSpecConn ==
  /\ SpecConn
  /\ \A t \in Callers \cup {"reader"} : WF_vars(ResultSetStep(t))
  /\ \A t \in Callers : WF_vars(Next_(t))
  /\ WF_vars(failAll) /\ WF_vars(errorCallback)

\* ---------------------------------------------------------------- SpecShared
\* one ResultSet used by two tasks at once: caller A, which was given it by
\* write and consumes it as consume and Next_ do, and a second task the
\* caller handed it to, which calls IsEmpty / one / All / Close; the producer
\* adds to it and ends it as the reader does
Sharers == {"A"} \cup Consumers
InitShared ==
  /\ newChannelResultSet /\ NoDriver /\ NoSession /\ NoCodec /\ NoMap /\ NoTraversal
  /\ TaskInit(Sharers \cup {"producer"},
              [t \in Tasks |-> IF t = "producer" THEN "p_idle"
                               ELSE IF t = "A" THEN "w_written" ELSE "c_idle"])
  /\ state = "established"
  /\ internalMap = [k \in RequestIds |-> IF k = 1 THEN 1 ELSE 0]

SharedOps == \E t \in Sharers \cup {"producer"} : ResultSetStep(t)

NextShared == p_add \/ p_close \/ c_call \/ consume("A") \/ Next_("A") \/ SharedOps

SpecShared == InitShared /\ [][NextShared]_vars

\* every task that can take a step of a ResultSet call eventually takes it,
\* and the caller that has its answer from IsEmpty goes on
FairSpecShared ==
  /\ SpecShared
  /\ \A t \in Sharers \cup {"producer"} : WF_vars(ResultSetStep(t))
  /\ WF_vars(Next_("A"))

\* ------------------------------------------------ DriverRemoteConnection
\* the settings a caller can ask for (negative numbers are left out)
SessionIds == {"", "session"}
Thresholds == {0, 1}
Settings ==
  [Session : SessionIds, NewConnectionThreshold : Thresholds,
   MaximumConcurrentConnections : 0..MaxConnections,
   InitialConcurrentConnections : 0..(MaxConnections + 1)]

\* NewDriverRemoteConnection: the three numbers handed to newLoadBalancingPool.
\* A session forces the maximum to 1; an initial number above the maximum
\* is reduced to the maximum.
\* a threshold of 0 whatever the caller set
PoolThreshold_zero(s) == 0
PoolThreshold(s) == s.NewConnectionThreshold
\* the maximum as the caller set it, session or not
PoolMaximum_ignoresSession(s) == s.MaximumConcurrentConnections
PoolMaximum(s) == IF s.Session # "" THEN 1 ELSE s.MaximumConcurrentConnections
\* the initial number as the caller set it
PoolInitial_notReduced(s) == s.InitialConcurrentConnections
PoolInitial(s) ==
  IF s.InitialConcurrentConnections > PoolMaximum(s)
    THEN PoolMaximum(s) ELSE s.InitialConcurrentConnections

\* a connection of the pool as createConnection returns it: established, with
\* an empty map and an open transport
PoolRequestIds == 1..MaxRequests
newConnection(n) ==
  [id |-> n, state |-> "established", protocolCloses |-> 0,
   results |-> [k \in PoolRequestIds |-> 0]]

\* newLoadBalancingPool: the parameters and the connections opened eagerly
newLoadBalancingPool(threshold, maximum, initial) ==
  [connections |-> [i \in 1..initial |-> newConnection(i)],
   newConnectionThreshold |-> threshold, maximum |-> maximum, opened |-> initial,
   resultSets |-> [k \in PoolRequestIds |-> "none"]]

\* the pool's selection for a write: the connection with the smallest
\* activeResults() (the first of them in the list); a new connection when
\* that minimum exceeds the threshold and there is room; a selected connection
\* that is in the error state is removed from the list and the scan starts
\* again; with no connection left a fresh one is opened when the maximum
\* allows one, else the write has no connection (conn = 0)
LeastUsed(conns) ==
  CHOOSE i \in 1..Len(conns) :
    /\ \A j \in 1..Len(conns) : size(conns[i].results) <= size(conns[j].results)
    /\ \A j \in 1..(i - 1) : size(conns[j].results) > size(conns[i].results)
Remove(conns, i) == SubSeq(conns, 1, i - 1) \o SubSeq(conns, i + 1, Len(conns))
Opened(p) ==
  [pool |-> [p EXCEPT !.connections = Append(@, newConnection(p.opened + 1)),
                      !.opened = @ + 1],
   conn |-> p.opened + 1, opened |-> TRUE]
RECURSIVE Selection(_)
Selection(p) ==
  IF Len(p.connections) = 0
    THEN IF p.maximum > 0 THEN Opened(p)
         ELSE [pool |-> p, conn |-> 0, opened |-> FALSE]
    ELSE LET i == LeastUsed(p.connections)
             c == p.connections[i]
         IN  IF size(c.results) > p.newConnectionThreshold
                  /\ Len(p.connections) < p.maximum
               THEN Opened(p)
               ELSE IF c.state = "closedDueToError"
                 THEN Selection([p EXCEPT !.connections = Remove(@, i)])
                 ELSE [pool |-> p, conn |-> c.id, opened |-> FALSE]

\* the position in the pool's list of the connection with this id, 0 when it
\* is not in the list
IndexOf(p, id) ==
  IF \E i \in 1..Len(p.connections) : p.connections[i].id = id
    THEN CHOOSE i \in 1..Len(p.connections) : p.connections[i].id = id
    ELSE 0

\* everything but the position of the tasks and the driver's variables
restVars ==
  <<rsVars, connVars, histVars, arg, pending, ret, isEmptyRet, results, calls, panic,
    sessionVars, codec, syncMap, traversal>>

\* NewDriverRemoteConnection: the pool is built from the settings; when a
\* connection cannot be opened no handle is returned
NewDriverRemoteConnection ==
  /\ pc["user"] = "NewDriverRemoteConnection"
  /\ \/ /\ pool' = newLoadBalancingPool(PoolThreshold(settings), PoolMaximum(settings),
                                         PoolInitial(settings))
        /\ pc' = [pc EXCEPT !["user"] = "d_idle"]
     \/ /\ PoolInitial(settings) > 0
        /\ pc' = [pc EXCEPT !["user"] = "d_failed"]
        /\ UNCHANGED pool
  /\ UNCHANGED <<settings, driver, journal, restVars>>

\* the user starts a call that ends in a write on the pool
Start(op, next) ==
  /\ pc["user"] = "d_idle"
  /\ journal.submits < MaxRequests
  /\ journal' = [journal EXCEPT !.last = [NoLast EXCEPT !.op = op,
                                                         !.wasClosed = driver.isClosed]]
  /\ pc' = [pc EXCEPT !["user"] = next]
  /\ UNCHANGED <<settings, pool, driver, restVars>>

\* DriverRemoteConnection.Submit: handed to client.Submit as it is
Submit ==
  /\ Start("Submit", "pool_write")

\* DriverRemoteConnection.submitBytecode: refused on a closed handle, else
\* handed to client.submitBytecode
submitBytecode(op) ==
  /\ Start(op, "submitBytecode")

\* the calls of a Traversal that submit its bytecode through getResults
TraversalOps == {"HasNext", "Next"}

\* where the user task continues when the write of its call has returned:
\* getResults goes on to keep the ResultSet, Client.Close goes on to close
\* the connections when the close message of the session was written and
\* returns the error when it was not
AfterWrite(op, outcome) ==
  IF op \in TraversalOps THEN "getResults_assign"
  ELSE IF op # "closeSession" THEN "d_idle"
  ELSE IF outcome = "nil" THEN "pool_close" ELSE "Close_isClosed"

\* submitBytecode, the test of isClosed
submitBytecode_test ==
  /\ pc["user"] = "submitBytecode"
  /\ IF driver.isClosed
       THEN /\ journal' = [journal EXCEPT !.last.outcome = "err0203"]
            /\ pc' = [pc EXCEPT !["user"] = AfterWrite(journal.last.op, "err0203")]
       ELSE /\ pc' = [pc EXCEPT !["user"] = "pool_write"]
            /\ UNCHANGED journal
  /\ UNCHANGED <<settings, pool, driver, restVars>>

\* commit and rollback: a bytecode with the one source instruction, through
\* submitBytecode
commit ==
  /\ submitBytecode("commit")
rollback ==
  /\ submitBytecode("rollback")

\* the pool's write: the selection, under the pool's lock
poolWrite ==
  /\ pc["user"] = "pool_write"
  /\ LET sel == Selection(pool) IN
       /\ pool' = sel.pool
       /\ IF sel.conn = 0
            THEN /\ journal' = [journal EXCEPT !.last.outcome = "noConnection"]
                 /\ pc' = [pc EXCEPT !["user"] =
                                        AfterWrite(journal.last.op, "noConnection")]
            ELSE /\ journal' = [journal EXCEPT !.last.conn = sel.conn,
                                               !.last.opened = sel.opened]
                 /\ pc' = [pc EXCEPT !["user"] = "connection_write"]
  /\ UNCHANGED <<settings, driver, restVars>>

\* connection.write on the selected connection: the ResultSet is made and
\* stored under the request id, then protocol.write sends the request or
\* fails (it fails when the transport has been closed)
connectionWrite ==
  /\ pc["user"] = "connection_write"
  /\ LET i == IndexOf(pool, journal.last.conn)
         c == pool.connections[i]
         k == journal.submits + 1
     IN \E ok \in (IF c.protocolCloses = 0 THEN {TRUE, FALSE} ELSE {FALSE}) :
          /\ pool' = [pool EXCEPT !.connections[i].results = store(@, k, k),
                                  !.resultSets[k] = IF ok THEN "open" ELSE "unsent"]
          /\ journal' = [journal EXCEPT !.submits = k,
                                        !.sent = IF ok THEN @ + 1 ELSE @,
                                        !.last.connState = c.state,
                                        !.last.outcome = IF ok THEN "nil" ELSE "writeError"]
          /\ pc' = [pc EXCEPT !["user"] =
                                 AfterWrite(journal.last.op,
                                            IF ok THEN "nil" ELSE "writeError")]
  /\ UNCHANGED <<settings, driver, restVars>>

\* DriverRemoteConnection.Close (of a handle without spawned sessions):
\* client.Close(), then isClosed = true
DriverRemoteConnection_Close ==
  /\ pc["user"] = "d_idle"
  /\ driver.closes < 2
  /\ journal' = [journal EXCEPT !.last = [NoLast EXCEPT !.op = "Close",
                                                         !.wasClosed = driver.isClosed,
                                                         !.before = pool]]
  /\ pc' = [pc EXCEPT !["user"] = "Client_Close"]
  /\ UNCHANGED <<settings, pool, driver, restVars>>

\* Client.Close: a session client first writes the close message of the
\* session (closeSession) and returns the error when that fails; then the
\* connections are closed
Client_Close ==
  /\ pc["user"] = "Client_Close"
  /\ IF settings.Session # ""
       THEN /\ journal.submits < MaxRequests
            /\ journal' = [journal EXCEPT !.last.op = "closeSession"]
            /\ pc' = [pc EXCEPT !["user"] = "pool_write"]
       ELSE /\ pc' = [pc EXCEPT !["user"] = "pool_close"]
            /\ UNCHANGED journal
  /\ UNCHANGED <<settings, pool, driver, restVars>>

\* connection.close() on a connection of the pool: the new connection and
\* the error returned
connectionClose(c) ==
  IF c.state # "established"
    THEN [conn |-> c, err |-> "err0101"]
    ELSE [conn |-> [c EXCEPT !.protocolCloses = @ + 1, !.state = "closed"],
          err |-> "nil"]

\* the ResultSets of the open requests of a connection end with the
\* transport error
Drained(rs, c) ==
  [k \in DOMAIN rs |->
     IF load(c.results, k) # 0 /\ rs[k] \in {"open", "unsent"}
       THEN "transportError" ELSE rs[k]]
RECURSIVE DrainedAll(_, _)
DrainedAll(rs, conns) ==
  IF conns = <<>> THEN rs ELSE DrainedAll(Drained(rs, Head(conns)), Tail(conns))

\* the close of the client's connections: connection.close() on every
\* connection of the list, whose active ResultSets end with the transport
\* error; Client.Close returns the error of connection.close()
poolClose ==
  /\ pc["user"] = "pool_close"
  /\ LET closedConns == [i \in 1..Len(pool.connections) |->
                           connectionClose(pool.connections[i])]
         failed == {i \in 1..Len(pool.connections) : closedConns[i].err # "nil"}
     IN /\ pool' = [pool EXCEPT
                      !.connections = [i \in 1..Len(pool.connections) |->
                                         closedConns[i].conn],
                      !.resultSets = DrainedAll(@, pool.connections)]
        /\ journal' = [journal EXCEPT !.last.op = "Close",
                                      !.last.outcome =
                                        IF failed = {} THEN "nil" ELSE "err0101"]
  /\ pc' = [pc EXCEPT !["user"] = "Close_isClosed"]
  /\ UNCHANGED <<settings, driver, restVars>>

\* DriverRemoteConnection.Close, after client.Close() has returned (its
\* error is only logged): isClosed = true
Close_isClosed ==
  /\ pc["user"] = "Close_isClosed"
  /\ driver' = [isClosed |-> TRUE, closes |-> driver.closes + 1]
  /\ journal' = [journal EXCEPT !.last.op = "Close"]
  /\ pc' = [pc EXCEPT !["user"] = "d_idle"]
  /\ UNCHANGED <<settings, pool, restVars>>

\* connection.errorCallback() of a connection of the pool, called by its
\* reader task when the read fails: state = closedDueToError and
\* protocol.close(); the ResultSets of the connection were failed first
connectionErrorCallback ==
  /\ pc["user"] \notin {"off", "NewDriverRemoteConnection", "d_failed"}
  /\ \E i \in 1..Len(pool.connections) :
       /\ pool.connections[i].protocolCloses = 0
       /\ pool' = [pool EXCEPT !.connections[i].state = "closedDueToError",
                               !.connections[i].protocolCloses = @ + 1,
                               !.resultSets = Drained(@, pool.connections[i])]
  /\ UNCHANGED <<settings, driver, journal, pc, restVars>>

\* the reader task of a connection of the pool handles the terminal frame of
\* a request: its ResultSet is closed and its entry removed
terminalFrame ==
  /\ pc["user"] \notin {"off", "NewDriverRemoteConnection", "d_failed"}
  /\ \E i \in 1..Len(pool.connections) : \E k \in PoolRequestIds :
       /\ pool.connections[i].protocolCloses = 0
       /\ load(pool.connections[i].results, k) # 0
       /\ pool.resultSets[k] = "open"
       /\ pool' = [pool EXCEPT !.connections[i].results = delete(@, k),
                               !.resultSets[k] = "closedOk"]
  /\ UNCHANGED <<settings, driver, journal, pc, restVars>>

\* ---------------------------------------------------------------- Traversal
travOther ==
  <<settings, pool, driver, rsVars, connVars, histVars, arg, pending, ret, isEmptyRet,
    results, calls, sessionVars, codec, syncMap>>

\* the user task calls HasNext or Next on the Traversal; both start with
\* getResults
TraversalCall ==
  /\ Running /\ pc["user"] = "d_idle"
  /\ traversal.calls < MaxCalls
  /\ \E op \in TraversalOps :
       traversal' = [traversal EXCEPT !.call = op, !.calls = @ + 1,
                                      !.ret = "none", !.err = "nil"]
  /\ pc' = [pc EXCEPT !["user"] = "getResults"]
  /\ UNCHANGED <<journal, panic, travOther>>

\* getResults: when t.results is nil the bytecode is submitted, else the
\* pointer kept is returned with a nil error
getResults ==
  /\ Running /\ pc["user"] = "getResults"
  /\ IF traversal.results.isNil
       THEN /\ journal.submits < MaxRequests
            /\ journal' = [journal EXCEPT !.last = [NoLast EXCEPT !.op = traversal.call,
                                                                   !.wasClosed = driver.isClosed]]
            /\ traversal' = [traversal EXCEPT !.submits = @ + 1]
            /\ pc' = [pc EXCEPT !["user"] = "submitBytecode"]
       ELSE /\ traversal' = [traversal EXCEPT !.err = "nil"]
            /\ pc' = [pc EXCEPT !["user"] = "getResults_return"]
            /\ UNCHANGED journal
  /\ UNCHANGED <<panic, travOther>>

\* getResults, after the submit has returned: t.results = &results, whatever
\* the submit returned (a ResultSet, or nil with an error), and err is
\* returned; rs is the request id of the ResultSet pointed to, 0 for nil
getResults_assign ==
  /\ Running /\ pc["user"] = "getResults_assign"
  /\ LET outcome == journal.last.outcome
         rs == IF outcome \in {"nil", "writeError"} THEN journal.submits ELSE 0
     IN traversal' = [traversal EXCEPT !.results = [isNil |-> FALSE, rs |-> rs],
                                       !.err = outcome, !.submitErr = outcome]
  /\ pc' = [pc EXCEPT !["user"] = "getResults_return"]
  /\ UNCHANGED <<journal, panic, travOther>>

\* HasNext and Next after getResults: the error is returned when there is
\* one; else IsEmpty is called on *results, a nil pointer dereference when
\* the ResultSet is nil. IsEmpty returns true on a closed ResultSet, false
\* when a value has arrived on an open one, and waits otherwise; HasNext
\* returns its negation, Next returns nil or the value one() takes.
Traversal_return ==
  /\ Running /\ pc["user"] = "getResults_return"
  /\ IF traversal.err # "nil"
       THEN /\ traversal' = [traversal EXCEPT !.ret = "error"]
            /\ pc' = [pc EXCEPT !["user"] = "d_idle"]
            /\ UNCHANGED panic
       ELSE IF traversal.results.rs = 0
         THEN /\ panic' = "nil pointer dereference"
              /\ traversal' = [traversal EXCEPT !.ret = "panic"]
              /\ UNCHANGED pc
         ELSE /\ \/ /\ pool.resultSets[traversal.results.rs] \notin {"open", "unsent"}
                    /\ traversal' = [traversal EXCEPT !.ret =
                                       IF traversal.call = "HasNext" THEN "false" ELSE "nil"]
                 \/ /\ pool.resultSets[traversal.results.rs] = "open"
                    /\ traversal' = [traversal EXCEPT !.ret =
                                       IF traversal.call = "HasNext" THEN "true" ELSE "value"]
              /\ pc' = [pc EXCEPT !["user"] = "d_idle"]
              /\ UNCHANGED panic
  /\ UNCHANGED <<journal, travOther>>

\* a caller's settings, and the user task about to make the handle
InitDriver ==
  /\ newChannelResultSet
  /\ TaskInit({"user"}, [t \in Tasks |-> "NewDriverRemoteConnection"])
  /\ state = "initialized"
  /\ internalMap = [k \in RequestIds |-> 0]
  /\ settings \in Settings
  /\ pool = NoPool
  /\ driver = [isClosed |-> FALSE, closes |-> 0]
  /\ journal = [last |-> NoLast, sent |-> 0, submits |-> 0]
  /\ NoSession /\ NoCodec /\ NoMap /\ NoTraversal

NextDriver ==
  \/ NewDriverRemoteConnection
  \/ Submit \/ commit \/ rollback \/ submitBytecode("submitBytecode")
  \/ submitBytecode_test
  \/ poolWrite \/ connectionWrite
  \/ DriverRemoteConnection_Close \/ Client_Close \/ poolClose \/ Close_isClosed
  \/ connectionErrorCallback \/ terminalFrame

SpecDriver == InitDriver /\ [][NextDriver]_vars

\* a Traversal on the handle: the user task calls HasNext and Next on it and
\* closes the handle, and the connections of the pool can fail
NextTraversal ==
  \/ NewDriverRemoteConnection
  \/ TraversalCall \/ getResults \/ getResults_assign \/ Traversal_return
  \/ submitBytecode_test
  \/ poolWrite \/ connectionWrite
  \/ DriverRemoteConnection_Close \/ Client_Close \/ poolClose \/ Close_isClosed
  \/ connectionErrorCallback \/ terminalFrame

SpecTraversal == InitDriver /\ [][NextTraversal]_vars

\* ------------------------------------------- sessions and transactions
\* SpecSession: one user task that makes session handles from handles with
\* CreateSession and closes handles.

\* the session ids a caller passes to CreateSession: none, one, two
IdLists == {<<>>, <<"">>, <<"s1">>, <<"s1", "s2">>}
\* uuid.New().String() of the n-th handle
Uuid(n) == <<"uuid1", "uuid2", "uuid3", "uuid4", "uuid5", "uuid6">>[n]

\* the settings NewDriverRemoteConnection starts from (runtime.NumCPU() is
\* MaxConnections here)
DefaultSettings ==
  [Session |-> "", NewConnectionThreshold |-> 1,
   MaximumConcurrentConnections |-> MaxConnections, InitialConcurrentConnections |-> 1]

\* the handle NewDriverRemoteConnection returns: a client with the session
\* of the settings and the pool, no spawned session, not closed
DriverRemoteConnection(s) ==
  [client |-> [session |-> s.Session,
               connections |-> newLoadBalancingPool(PoolThreshold(s), PoolMaximum(s),
                                                    PoolInitial(s))],
   spawnedSessions |-> <<>>, isClosed |-> FALSE]

isSession(d) == d.client.session # ""

\* the configuration CreateSession hands to NewDriverRemoteConnection
SessionSettings(sessionId, n) ==
  [DefaultSettings EXCEPT !.Session = IF Len(sessionId) = 1 THEN sessionId[1] ELSE Uuid(n)]

\* CreateSession, after its two tests: NewDriverRemoteConnection with the
\* session id, and the new handle appended to spawnedSessions; connected
\* says whether NewDriverRemoteConnection could open its connection. Gives
\* the handles afterwards, the error, and the new handle (0 when none)
\* the session spawned last is handed out again when there is one
Spawned_sharesSession(hs, h, sessionId, connected) ==
  IF ~connected
    THEN [handles |-> hs, err |-> "connectError", drc |-> 0]
    ELSE IF hs[h].spawnedSessions # <<>>
      THEN [handles |-> hs, err |-> "nil",
            drc |-> hs[h].spawnedSessions[Len(hs[h].spawnedSessions)]]
      ELSE [handles |-> Append([hs EXCEPT ![h].spawnedSessions = Append(@, Len(hs) + 1)],
                               DriverRemoteConnection(SessionSettings(sessionId, Len(hs) + 1))),
            err |-> "nil", drc |-> Len(hs) + 1]
Spawned(hs, h, sessionId, connected) ==
  IF ~connected
    THEN [handles |-> hs, err |-> "connectError", drc |-> 0]
    ELSE [handles |-> Append([hs EXCEPT ![h].spawnedSessions = Append(@, Len(hs) + 1)],
                             DriverRemoteConnection(SessionSettings(sessionId, Len(hs) + 1))),
          err |-> "nil", drc |-> Len(hs) + 1]
\* without the test of the receiver
CreateSession_noSessionTest(hs, h, sessionId, connected) ==
  IF Len(sessionId) > 1
    THEN [handles |-> hs, err |-> "err0201", drc |-> 0]
    ELSE Spawned(hs, h, sessionId, connected)
CreateSession(hs, h, sessionId, connected) ==
  IF Len(sessionId) > 1
    THEN [handles |-> hs, err |-> "err0201", drc |-> 0]
    ELSE IF isSession(hs[h])
      THEN [handles |-> hs, err |-> "err0202", drc |-> 0]
      ELSE Spawned(hs, h, sessionId, connected)

\* the requests: script and bytecode, and the close message of a session
makeStringRequest(traversalString) ==
  [op |-> "eval", processor |-> "",
   args |-> [k \in {"gremlin", "language"} |->
               IF k = "gremlin" THEN traversalString ELSE "gremlin-groovy"]]
makeBytecodeRequest(bytecode) ==
  [op |-> "bytecode", processor |-> "",
   args |-> [k \in {"gremlin", "aliases"} |-> IF k = "gremlin" THEN bytecode ELSE "g"]]
makeCloseSessionRequest(session) ==
  [op |-> "close", processor |-> "session",
   args |-> [k \in {"session"} |-> session]]

\* Client.Submit and Client.submitBytecode: the session, when the client has
\* one, is put into the args and the processor is "session"
WithSession(Session, request) ==
  IF Session # ""
    THEN [request EXCEPT !.processor = "session",
                         !.args = [k \in DOMAIN request.args \cup {"session"} |->
                                     IF k = "session" THEN Session ELSE request.args[k]]]
    ELSE request
ClientSubmit(Session, traversalString) ==
  WithSession(Session, makeStringRequest(traversalString))
ClientSubmitBytecode(Session, bytecode) ==
  WithSession(Session, makeBytecodeRequest(bytecode))

\* the state the calls on handles work on
World == [handles |-> handles, requests |-> requests, clientCloses |-> clientCloses]
Written(w, h, request) ==
  [w EXCEPT !.requests = @ \cup {[h |-> h, configured |-> w.handles[h].client.session,
                                  request |-> request]}]

\* Client.Close of the client of handle h: the close message of a session,
\* then the connections are closed
ClientClose(w, h) ==
  LET c == w.handles[h].client
      w1 == IF c.session # "" THEN Written(w, h, makeCloseSessionRequest(c.session)) ELSE w
  IN  [w1 EXCEPT !.clientCloses = Append(@, h),
                 !.handles[h].client.connections.connections =
                    [i \in 1..Len(@) |-> connectionClose(@[i]).conn]]

\* DriverRemoteConnection.Close of handle h: Close() of every spawned
\* session in the order of the list, the list emptied, client.Close(),
\* isClosed = true
RECURSIVE DriverClose(_, _)
RECURSIVE CloseEach(_, _)
CloseEach(w, sessions) ==
  IF sessions = <<>> THEN w ELSE CloseEach(DriverClose(w, Head(sessions)), Tail(sessions))
\* client.Close() of the handle before the Close() of its sessions
DriverClose_clientFirst(w, h) ==
  LET w1 == ClientClose(w, h)
      w2 == CloseEach(w1, w.handles[h].spawnedSessions)
  IN  [w2 EXCEPT !.handles[h].spawnedSessions = <<>>, !.handles[h].isClosed = TRUE]
DriverClose(w, h) ==
  LET w1 == CloseEach(w, w.handles[h].spawnedSessions)
      w2 == [w1 EXCEPT !.handles[h].spawnedSessions = <<>>]
      w3 == ClientClose(w2, h)
  IN  [w3 EXCEPT !.handles[h].isClosed = TRUE]

\* DriverRemoteConnection.Submit (no test of isClosed) and submitBytecode
\* (err0203 on a closed handle), and commit / rollback through it
DriverSubmit(w, h, traversalString) ==
  [w |-> Written(w, h, ClientSubmit(w.handles[h].client.session, traversalString)),
   err |-> "nil"]
DriverSubmitBytecode(w, h, bytecode) ==
  IF w.handles[h].isClosed
    THEN [w |-> w, err |-> "err0203"]
    ELSE [w |-> Written(w, h, ClientSubmitBytecode(w.handles[h].client.session, bytecode)),
          err |-> "nil"]
DriverCommit(w, h) == DriverSubmitBytecode(w, h, "tx:commit")
DriverRollback(w, h) == DriverSubmitBytecode(w, h, "tx:rollback")

\* NewClient: the Client made from ClientSettings
NewClient(s) == [made |-> TRUE, configured |-> s.Session, Session |-> ""]

\* Transaction: made by Tx() on the handle of a traversal source; Begin
\* creates a session from that handle and opens the transaction; Commit and
\* Rollback submit on the session, close it and take it from the list of the
\* handle; a transaction whose session handle was closed is not open
NewTransaction(h) == [remote |-> h, isOpen |-> FALSE, session |-> 0]
IsOpen(hs, t) == t.isOpen /\ (t.session # 0 => ~hs[t.session].isClosed)
Without(list, x) == SelectSeq(list, LAMBDA y : y # x)
closeConnection(w, t) ==
  LET w1 == DriverClose(w, t.session)
  IN  [w |-> [w1 EXCEPT !.handles[t.remote].spawnedSessions = Without(@, t.session)],
       tx |-> [t EXCEPT !.isOpen = FALSE], err |-> "nil"]
Begin(w, t, connected) ==
  IF IsOpen(w.handles, t)
    THEN [w |-> w, tx |-> t, err |-> "err1101"]
    ELSE LET r == CreateSession(w.handles, t.remote, <<>>, connected)
         IN  IF r.err # "nil"
               THEN [w |-> w, tx |-> t, err |-> r.err]
               ELSE [w |-> [w EXCEPT !.handles = r.handles],
                     tx |-> [t EXCEPT !.isOpen = TRUE, !.session = r.drc], err |-> "nil"]
Finish(w, t, bytecode) ==
  IF ~IsOpen(w.handles, t)
    THEN [w |-> w, tx |-> [t EXCEPT !.isOpen = FALSE], err |-> "err1102"]
    ELSE LET r == IF bytecode = "tx:commit" THEN DriverCommit(w, t.session)
                  ELSE DriverRollback(w, t.session)
         IN  IF r.err # "nil" THEN [w |-> w, tx |-> t, err |-> r.err]
             ELSE closeConnection(r.w, t)
Commit(w, t) == Finish(w, t, "tx:commit")
Rollback(w, t) == Finish(w, t, "tx:rollback")
TransactionClose(w, t) ==
  IF ~IsOpen(w.handles, t)
    THEN [w |-> w, tx |-> [t EXCEPT !.isOpen = FALSE], err |-> "err1103"]
    ELSE closeConnection(w, t)

\* ---- the calls of the user task
otherVars ==
  <<rsVars, connVars, taskVars, histVars, settings, pool, driver, journal, codec, syncMap,
    traversal>>
Handles == 1..Len(handles)
Called(op, h, tx, ids, e, made) ==
  out' = [op |-> op, h |-> h, tx |-> tx, ids |-> ids, err |-> e, made |-> made]
Becomes(w) ==
  /\ handles' = w.handles
  /\ requests' = w.requests
  /\ clientCloses' = w.clientCloses

CallCreateSession ==
  /\ Len(handles) < MaxHandles
  /\ \E h \in Handles : \E sessionId \in IdLists : \E connected \in BOOLEAN :
       LET r == CreateSession(handles, h, sessionId, connected)
       IN  /\ handles' = r.handles
           /\ Called("CreateSession", h, 0, sessionId, r.err, r.drc)
  /\ UNCHANGED <<txs, requests, clientCloses, client, otherVars>>

CloseOf(held) ==
  /\ Len(clientCloses) < MaxHandles
  /\ \E h \in held :
       /\ Becomes(DriverClose(World, h))
       /\ Called("Close", h, 0, <<>>, "nil", 0)
  /\ UNCHANGED <<txs, client, otherVars>>
\* Close() of any of the handles
CallClose ==
  /\ CloseOf(Handles)
\* Close() of the first handle (the session handle of a transaction is not
\* handed to the user)
CallCloseFirst ==
  /\ CloseOf({1})

CallSubmit ==
  /\ Cardinality(requests) < MaxWritten
  /\ \E h \in Handles :
       LET r == DriverSubmit(World, h, "g.V()")
       IN  Becomes(r.w) /\ Called("Submit", h, 0, <<>>, r.err, 0)
  /\ UNCHANGED <<txs, client, otherVars>>

CallSubmitBytecode ==
  /\ Cardinality(requests) < MaxWritten
  /\ \E h \in Handles : \E bytecode \in {"V", "tx:commit", "tx:rollback"} :
       LET r == DriverSubmitBytecode(World, h, bytecode)
       IN  Becomes(r.w) /\ Called("submitBytecode", h, 0, <<>>, r.err, 0)
  /\ UNCHANGED <<txs, client, otherVars>>

CallTx ==
  /\ Len(txs) < MaxTx
  /\ \E h \in Handles :
       /\ txs' = Append(txs, NewTransaction(h))
       /\ Called("Tx", h, Len(txs) + 1, <<>>, "nil", 0)
  /\ UNCHANGED <<handles, requests, clientCloses, client, otherVars>>

TxCall(op, i, r) ==
  /\ Becomes(r.w)
  /\ txs' = [txs EXCEPT ![i] = r.tx]
  /\ Called(op, txs[i].remote, i, <<>>, r.err, 0)
  /\ UNCHANGED <<client, otherVars>>

CallBegin ==
  /\ Len(handles) < MaxHandles
  /\ \E i \in 1..Len(txs) : \E connected \in BOOLEAN :
       TxCall("Begin", i, Begin(World, txs[i], connected))
CallCommit ==
  /\ \E i \in 1..Len(txs) : TxCall("Commit", i, Commit(World, txs[i]))
CallRollback ==
  /\ \E i \in 1..Len(txs) : TxCall("Rollback", i, Rollback(World, txs[i]))
CallTransactionClose ==
  /\ \E i \in 1..Len(txs) : TxCall("TxClose", i, TransactionClose(World, txs[i]))

CallNewClient ==
  /\ ~client.made
  /\ \E id \in {"", "s1"} : client' = NewClient([Session |-> id])
  /\ Called("NewClient", 0, 0, <<>>, "nil", 0)
  /\ UNCHANGED <<handles, txs, requests, clientCloses, otherVars>>

CallClientSubmit ==
  /\ client.made
  /\ Cardinality(requests) < MaxWritten
  /\ \E request \in {ClientSubmit(client.Session, "g.V()"),
                     ClientSubmitBytecode(client.Session, "V")} :
       requests' = requests \cup {[h |-> 0, configured |-> client.configured,
                                   request |-> request]}
  /\ Called("Client.Submit", 0, 0, <<>>, "nil", 0)
  /\ UNCHANGED <<handles, txs, clientCloses, client, otherVars>>

\* the first handle, made with or without a session
InitSession ==
  /\ newChannelResultSet
  /\ TaskInit({}, [t \in Tasks |-> "off"])
  /\ state = "initialized"
  /\ internalMap = [k \in RequestIds |-> 0]
  /\ NoDriver /\ NoCodec /\ NoMap /\ NoTraversal
  /\ \E id \in SessionIds :
       handles = <<DriverRemoteConnection([DefaultSettings EXCEPT !.Session = id])>>
  /\ txs = <<>>
  /\ requests = {}
  /\ clientCloses = <<>>
  /\ client = [made |-> FALSE, configured |-> "", Session |-> ""]
  /\ out = NoOut

NextSession ==
  \/ CallCreateSession \/ CallClose

SpecSession == InitSession /\ [][NextSession]_vars

\* SpecClient: the user task submits on the first handle, closes it, and
\* makes a Client of its own with NewClient and submits on it
NextClient ==
  \/ CallSubmit \/ CallSubmitBytecode \/ CallClose
  \/ CallNewClient \/ CallClientSubmit

SpecClient == InitSession /\ [][NextClient]_vars

\* SpecTx: the user task runs transactions on the first handle and on the
\* sessions they create, and closes the first handle
NextTx ==
  \/ CallTx \/ CallBegin \/ CallCommit \/ CallRollback \/ CallTransactionClose
  \/ CallCloseFirst

SpecTx == InitSession /\ [][NextTx]_vars

\* ------------------------------------------------------------ GraphBinary
\* SpecCodec: a value is written in fully-qualified form and read back, or a
\* buffer received from the wire is read, fully qualified or with readValue.
\* A buffer is a sequence of bytes; a value is [t |-> its Go type, v |-> ...].

\* DataType codes
NullType == 254
IntType == 1
LongType == 2
StringType == 3
DoubleType == 7
FloatType == 8
ListType == 9
MapType == 10
UUIDType == 12
BytecodeType == 21
TraverserType == 33
ByteType == 36
ShortType == 38
BooleanType == 39
BigIntegerType == 35
valueFlagNull == 1
valueFlagNone == 0

Val(t, v) == [t |-> t, v |-> v]
Nil == Val("nil", 0)
\* no value returned (a nil interface next to an error)
NoValue == Val("none", 0)
Zeros(n) == [i \in 1..n |-> 0]
Min(a, b) == IF a < b THEN a ELSE b

\* encoding/binary, big endian: the w bytes of a number 0 <= n < 2^(8w), and
\* the number of a byte sequence
RECURSIVE BigEndian_littleEndian(_, _)
BigEndian_littleEndian(n, w) ==
  IF w = 0 THEN <<>> ELSE <<n % 256>> \o BigEndian_littleEndian(n \div 256, w - 1)
RECURSIVE BigEndian(_, _)
BigEndian(n, w) == IF w = 0 THEN <<>> ELSE Append(BigEndian(n \div 256, w - 1), n % 256)
RECURSIVE Unsigned(_)
Unsigned(b) ==
  IF b = <<>> THEN 0 ELSE Unsigned(SubSeq(b, 1, Len(b) - 1)) * 256 + b[Len(b)]

\* two's complement of width w <= 4 bytes: 2^(8w-1) - 1 is the largest value
MaxSigned(w) == IF w = 4 THEN 2147483647 ELSE 2^(8 * w - 1) - 1
\* binary.Write of an int16 / int32
WriteSigned(n, w) ==
  IF n >= 0 THEN BigEndian(n, w)
  ELSE LET b == BigEndian((n + MaxSigned(w)) + 1, w) IN [b EXCEPT ![1] = @ + 128]
\* binary.Read into an int16 / int32
ReadSigned(b) ==
  IF b[1] >= 128
    THEN (Unsigned([b EXCEPT ![1] = @ - 128]) - MaxSigned(Len(b))) - 1
    ELSE Unsigned(b)
\* binary.Write / Read of an int64 (the values of the model fit 32 bits: the
\* upper four bytes are the sign extension)
WriteInt64(n) ==
  (IF n < 0 THEN <<255, 255, 255, 255>> ELSE <<0, 0, 0, 0>>) \o WriteSigned(n, 4)
ReadInt64(b) == ReadSigned(SubSeq(b, 5, 8))

\* IEEE-754 bits of the floating point numbers of the model
Floats == {"0.0", "1.0", "-2.5"}
Float32Bits(f) ==
  CASE f = "0.0" -> <<0, 0, 0, 0>>
    [] f = "1.0" -> <<63, 128, 0, 0>>
    [] f = "-2.5" -> <<192, 32, 0, 0>>
Float64Bits(f) ==
  CASE f = "0.0" -> <<0, 0, 0, 0, 0, 0, 0, 0>>
    [] f = "1.0" -> <<63, 240, 0, 0, 0, 0, 0, 0>>
    [] f = "-2.5" -> <<192, 4, 0, 0, 0, 0, 0, 0>>
Float32From(b) ==
  IF \E f \in Floats : Float32Bits(f) = b
    THEN CHOOSE f \in Floats : Float32Bits(f) = b ELSE "other"
Float64From(b) ==
  IF \E f \in Floats : Float64Bits(f) = b
    THEN CHOOSE f \in Floats : Float64Bits(f) = b ELSE "other"

\* math/big: Int.Bytes() is the big-endian magnitude without leading zeros,
\* Int.BitLen() the length of the magnitude in bits
RECURSIVE Bytes(_)
Bytes(n) == IF n = 0 THEN <<>> ELSE Append(Bytes(n \div 256), n % 256)
RECURSIVE BitLen(_)
BitLen(n) == IF n = 0 THEN 0 ELSE 1 + BitLen(n \div 2)
Abs(n) == IF n < 0 THEN -n ELSE n

getSignedBytesFromBigInt_keepsLeadingFF(n) ==
  IF n > 0
    THEN LET b == Bytes(n) IN IF b[1] >= 128 THEN <<0>> \o b ELSE b
    ELSE IF n < 0
      THEN Bytes(n + 2^((BitLen(Abs(n)) \div 8 + 1) * 8))
      ELSE <<>>
getSignedBytesFromBigInt(n) ==
  IF n > 0
    THEN LET b == Bytes(n) IN IF b[1] >= 128 THEN <<0>> \o b ELSE b
    ELSE IF n < 0
      THEN LET length == (BitLen(Abs(n)) \div 8 + 1) * 8
               b == Bytes(n + 2^length)
           IN  IF Len(b) >= 2 /\ b[1] = 255 /\ b[2] >= 128 THEN Tail(b) ELSE b
      ELSE <<>>

getBigIntFromSignedBytes(b) ==
  IF Len(b) = 0 THEN 0
  ELSE IF b[1] < 128 THEN Unsigned(b)
  ELSE LET length == ((Len(b) * 8) \div 8 + 1) * 8
           b2 == Tail(Bytes(Abs(Unsigned(b) - 2^length)))
           b3 == IF b2[1] = 0 THEN Tail(b2) ELSE b2
       IN  -Unsigned(b3)

\* ---- write
\* getSerializerToWrite: the DataType of the serializer chosen for the Go
\* type of the value, 0 when there is none
getSerializerToWrite(val) ==
  CASE val.t = "bytecode" -> BytecodeType
    [] val.t = "string" -> StringType
    [] val.t = "bigint" -> BigIntegerType
    [] val.t \in {"int64", "int", "uint32"} -> LongType
    [] val.t \in {"int32", "uint16"} -> IntType
    [] val.t = "int16" -> ShortType
    [] val.t = "uint8" -> ByteType
    [] val.t = "bool" -> ByteType
    [] val.t = "uuid" -> UUIDType
    [] val.t = "float32" -> FloatType
    [] val.t = "float64" -> DoubleType
    [] val.t = "map" -> MapType
    [] val.t = "list" -> ListType
    [] OTHER -> 0

Wrote(bytes) == [bytes |-> bytes, err |-> "nil"]
WriteFailed(e) == [bytes |-> <<>>, err |-> e]
Int32Bytes(n) == WriteSigned(n, 4)
stringWriter(s) == Int32Bytes(Len(s)) \o s
bigIntWriter(n) ==
  LET signedBytes == getSignedBytesFromBigInt(n)
  IN  Int32Bytes(Len(signedBytes)) \o signedBytes

\* the keys of the maps of the model, and reflect's MapKeys: the keys of a
\* map in an order that is not specified (ord picks it)
KeyA == Val("string", <<97>>)
KeyB == Val("string", <<98>>)
MapKeys(m, ord) ==
  SelectSeq(IF ord = "ab" THEN <<KeyA, KeyB>> ELSE <<KeyB, KeyA>>,
            LAMBDA k : k \in DOMAIN m)
RECURSIVE Entries(_, _)
Entries(m, keys) ==
  IF keys = <<>> THEN <<>> ELSE <<Head(keys), m[Head(keys)]>> \o Entries(m, Tail(keys))

RECURSIVE Joined(_)
Joined(parts) == IF parts = <<>> THEN <<>> ELSE Head(parts) \o Joined(Tail(parts))

RECURSIVE serializerWrite(_, _)
RECURSIVE writeEach(_, _)
RECURSIVE instructionSetWriter(_, _)
\* the values of a sequence written one after the other, each fully qualified
writeEach(vals, ord) ==
  IF vals = <<>> THEN Wrote(<<>>)
  ELSE LET first == serializerWrite(Head(vals), ord)
           rest == writeEach(Tail(vals), ord)
       IN  IF first.err # "nil" THEN first
           ELSE IF rest.err # "nil" THEN rest
           ELSE Wrote(first.bytes \o rest.bytes)
listWriter(list, ord) ==
  LET items == writeEach(list, ord)
  IN  IF items.err # "nil" THEN items ELSE Wrote(Int32Bytes(Len(list)) \o items.bytes)
mapWriter(m, ord) ==
  LET keys == MapKeys(m, ord)
      items == writeEach(Entries(m, keys), ord)
  IN  IF items.err # "nil" THEN items ELSE Wrote(Int32Bytes(Len(keys)) \o items.bytes)
\* {length}{step_0}...{step_n}, a step being {name}{values_length}{value_0}...
instructionSetWriter(instructions, ord) ==
  LET step(i) ==
        LET arguments == writeEach(instructions[i].arguments, ord)
        IN  IF arguments.err # "nil" THEN arguments
            ELSE Wrote(stringWriter(instructions[i].operator)
                       \o Int32Bytes(Len(instructions[i].arguments)) \o arguments.bytes)
      steps == [i \in 1..Len(instructions) |-> step(i)]
  IN  IF \E i \in 1..Len(instructions) : steps[i].err # "nil"
        THEN WriteFailed("unknown data type to serialize")
        ELSE Wrote(Int32Bytes(Len(instructions))
                   \o Joined([i \in 1..Len(instructions) |-> steps[i].bytes]))
bytecodeWriter(bc, ord) ==
  LET steps == instructionSetWriter(bc.stepInstructions, ord)
      sources == instructionSetWriter(bc.sourceInstructions, ord)
  IN  IF steps.err # "nil" THEN steps
      ELSE IF sources.err # "nil" THEN sources
      ELSE Wrote(steps.bytes \o sources.bytes)

\* the writer of the serializer chosen for the value
writer(val, ord) ==
  CASE val.t = "bytecode" -> bytecodeWriter(val.v, ord)
    [] val.t = "string" -> Wrote(stringWriter(val.v))
    [] val.t = "bigint" -> Wrote(bigIntWriter(val.v))
    [] val.t \in {"int64", "int", "uint32"} -> Wrote(WriteInt64(val.v))
    [] val.t \in {"int32", "uint16"} -> Wrote(WriteSigned(val.v, 4))
    [] val.t = "int16" -> Wrote(WriteSigned(val.v, 2))
    [] val.t = "uint8" -> Wrote(<<val.v>>)
    [] val.t = "bool" -> Wrote(<<IF val.v THEN 1 ELSE 0>>)
    [] val.t = "uuid" -> Wrote(val.v)
    [] val.t = "float32" -> Wrote(Float32Bits(val.v))
    [] val.t = "float64" -> Wrote(Float64Bits(val.v))
    [] val.t = "map" -> mapWriter(val.v, ord)
    [] val.t = "list" -> listWriter(val.v, ord)

\* graphBinaryTypeSerializer.write: {type_code}{value_flag}{value}; nil is
\* written as FE 01
serializerWrite(valueObject, ord) ==
  IF valueObject = Nil THEN Wrote(<<NullType, 1>>)
  ELSE LET dataType == getSerializerToWrite(valueObject)
       IN  IF dataType = 0 THEN WriteFailed("unknown data type to serialize")
           ELSE LET message == writer(valueObject, ord)
                IN  IF message.err # "nil" THEN message
                    ELSE Wrote(<<dataType, valueFlagNone>> \o message.bytes)

\* ---- read
\* a run-time panic instead of a return
IsPanic(e) ==
  e \in {"panic: makeslice: len out of range", "panic: nil pointer dereference"}
Got(val, rest) == [val |-> val, err |-> "nil", rest |-> rest]
ReadFailed(val, e, rest) == [val |-> val, err |-> e, rest |-> rest]
\* binary.Read of a value of w bytes: EOF on an empty buffer, unexpected EOF
\* on a short one (what was there is consumed)
binaryRead(buffer, w) ==
  IF Len(buffer) = 0 THEN [bytes |-> <<>>, err |-> "EOF", rest |-> <<>>]
  ELSE IF Len(buffer) < w THEN [bytes |-> <<>>, err |-> "unexpectedEOF", rest |-> <<>>]
  ELSE [bytes |-> SubSeq(buffer, 1, w), err |-> "nil",
        rest |-> SubSeq(buffer, w + 1, Len(buffer))]
\* bytes.Buffer.Read into a slice of n bytes: what is there is copied, and
\* only an empty buffer (with n > 0) gives EOF
bufferRead(buffer, n) ==
  IF Len(buffer) = 0
    THEN [bytes |-> Zeros(n), err |-> IF n = 0 THEN "nil" ELSE "EOF", rest |-> <<>>]
    ELSE LET k == Min(n, Len(buffer))
         IN  [bytes |-> SubSeq(buffer, 1, k) \o Zeros(n - k), err |-> "nil",
              rest |-> SubSeq(buffer, k + 1, Len(buffer))]

\* the type codes getSerializerToRead knows
Readable ==
  {TraverserType, StringType, BigIntegerType, LongType, IntType, ShortType, ByteType,
   BooleanType, UUIDType, FloatType, DoubleType, MapType, ListType}
\* nullFlagReturn of the serializer of a type code
nullFlagReturn(typ) ==
  IF typ \in {TraverserType, StringType} THEN Val("string", <<>>)
  ELSE IF typ = UUIDType THEN Val("uuid", Zeros(16))
  ELSE IF typ \in {MapType, ListType} THEN Nil
  ELSE Val("int", 0)

\* a reader that reads one fixed-width value: the value and the error of
\* binary.Read are returned together (the value is the one binary.Read has
\* stored, as the gc compiler orders the two)
FromBytes(t, b) ==
  CASE t = "int64" -> ReadInt64(b)
    [] t \in {"int32", "int16"} -> ReadSigned(b)
    [] t = "uint8" -> b[1]
    [] t = "bool" -> b[1] # 0
    [] t = "float32" -> Float32From(b)
    [] t = "float64" -> Float64From(b)
Fixed(buffer, w, t, zero) ==
  LET r == binaryRead(buffer, w)
  IN  IF r.err # "nil" THEN ReadFailed(Val(t, zero), r.err, r.rest)
      ELSE Got(Val(t, FromBytes(t, r.bytes)), r.rest)

RECURSIVE serializerRead(_)
RECURSIVE readEach(_, _)
RECURSIVE reader(_, _)
\* n values read one after the other, each fully qualified
readEach(buffer, n) ==
  IF n <= 0 THEN [vals |-> <<>>, err |-> "nil", rest |-> buffer]
  ELSE LET first == serializerRead(buffer)
       IN  IF first.err # "nil" THEN [vals |-> <<>>, err |-> first.err, rest |-> first.rest]
           ELSE LET others == readEach(first.rest, n - 1)
                IN  [others EXCEPT !.vals = <<first.val>> \o @]
\* valMap[key] = val for the pairs read, in their order
RECURSIVE MapOf(_)
MapOf(pairs) ==
  IF pairs = <<>> THEN <<>>
  ELSE LET n == Len(pairs)
           before == MapOf(SubSeq(pairs, 1, n - 2))
       IN  [k \in DOMAIN before \cup {pairs[n - 1]} |->
              IF k = pairs[n - 1] THEN pairs[n] ELSE before[k]]

\* the reader of the serializer of a type code
reader(typ, buffer) ==
  CASE typ = TraverserType ->
         LET bulk == binaryRead(buffer, 8)
         IN  IF bulk.err # "nil" THEN ReadFailed(NoValue, bulk.err, bulk.rest)
             ELSE LET value == serializerRead(bulk.rest)
                  IN  IF value.err # "nil" THEN ReadFailed(NoValue, value.err, value.rest)
                      ELSE Got(Val("traverser", [bulk |-> ReadInt64(bulk.bytes),
                                                 value |-> value.val]), value.rest)
    [] typ = StringType ->
         LET length == binaryRead(buffer, 4)
         IN  IF length.err # "nil" THEN ReadFailed(NoValue, length.err, length.rest)
             ELSE IF ReadSigned(length.bytes) < 0
               THEN ReadFailed(NoValue, "panic: makeslice: len out of range", length.rest)
               ELSE LET valBytes == bufferRead(length.rest, ReadSigned(length.bytes))
                    IN  [val |-> Val("string", valBytes.bytes), err |-> valBytes.err,
                         rest |-> valBytes.rest]
    [] typ = BigIntegerType ->
         LET length == binaryRead(buffer, 4)
         IN  IF length.err # "nil" THEN ReadFailed(NoValue, length.err, length.rest)
             ELSE IF ReadSigned(length.bytes) < 0
               THEN ReadFailed(NoValue, "panic: makeslice: len out of range", length.rest)
               ELSE IF Len(length.rest) < ReadSigned(length.bytes)
                 THEN ReadFailed(NoValue, "EOF", <<>>)
                 ELSE LET n == ReadSigned(length.bytes)
                      IN  Got(Val("bigint", getBigIntFromSignedBytes(SubSeq(length.rest, 1, n))),
                              SubSeq(length.rest, n + 1, Len(length.rest)))
    [] typ = LongType -> Fixed(buffer, 8, "int64", 0)
    [] typ = IntType -> Fixed(buffer, 4, "int32", 0)
    [] typ = ShortType -> Fixed(buffer, 2, "int16", 0)
    [] typ = ByteType -> Fixed(buffer, 1, "uint8", 0)
    [] typ = BooleanType -> Fixed(buffer, 1, "bool", FALSE)
    [] typ = UUIDType ->
         LET valBytes == bufferRead(buffer, 16)
         IN  IF valBytes.err # "nil"
               THEN ReadFailed(Val("uuid", Zeros(16)), valBytes.err, valBytes.rest)
               ELSE Got(Val("uuid", valBytes.bytes), valBytes.rest)
    [] typ = FloatType -> Fixed(buffer, 4, "float32", "0.0")
    [] typ = DoubleType -> Fixed(buffer, 8, "float64", "0.0")
    [] typ = MapType ->
         LET length == binaryRead(buffer, 4)
         IN  IF length.err # "nil" THEN ReadFailed(NoValue, length.err, length.rest)
             ELSE LET items == readEach(length.rest, 2 * ReadSigned(length.bytes))
                  IN  IF items.err # "nil" THEN ReadFailed(NoValue, items.err, items.rest)
                      ELSE Got(Val("map", MapOf(items.vals)), items.rest)
    [] typ = ListType ->
         LET length == binaryRead(buffer, 4)
         IN  IF length.err # "nil" THEN ReadFailed(NoValue, length.err, length.rest)
             ELSE LET items == readEach(length.rest, ReadSigned(length.bytes))
                  IN  IF items.err # "nil" THEN ReadFailed(NoValue, items.err, items.rest)
                      ELSE Got(Val("list", items.vals), items.rest)

\* readTypeValue: in a nullable context the value flag is read first, and
\* the flag valueFlagNull gives nullFlagReturn; anything else goes on to the
\* reader
readTypeValue(buffer, typ, nullable) ==
  IF nullable
    THEN IF Len(buffer) = 0 THEN ReadFailed(NoValue, "EOF", <<>>)
         ELSE IF buffer[1] = valueFlagNull THEN Got(nullFlagReturn(typ), Tail(buffer))
         ELSE reader(typ, Tail(buffer))
    ELSE reader(typ, buffer)

\* graphBinaryTypeSerializer.read: the type code, then for NullType the null
\* byte, else the serializer of the type code reads flag and value
serializerRead(buffer) ==
  IF Len(buffer) = 0 THEN ReadFailed(NoValue, "EOF", <<>>)
  ELSE LET typeCode == buffer[1]
           rest == Tail(buffer)
       IN  IF typeCode = NullType
             THEN IF Len(rest) = 0 \/ rest[1] # 1
                    THEN ReadFailed(NoValue, "expected isNull check to be true for NullType",
                                    IF Len(rest) = 0 THEN rest ELSE Tail(rest))
                    ELSE Got(Nil, Tail(rest))
             ELSE IF typeCode \notin Readable
               THEN ReadFailed(NoValue, "unknown data type to deserialize", rest)
               ELSE readTypeValue(rest, typeCode, TRUE)

\* readValue: the type code must be the one asked for; the error of
\* readTypeValue is dropped
readValue(buffer, typ, nullable) ==
  IF Len(buffer) = 0 THEN ReadFailed(NoValue, "EOF", <<>>)
  ELSE IF buffer[1] # typ
    THEN ReadFailed(NoValue, "datatype readType from input buffer different from requested datatype",
                    Tail(buffer))
  ELSE IF typ \notin Readable
    THEN ReadFailed(NoValue, "panic: nil pointer dereference", Tail(buffer))
  ELSE LET r == readTypeValue(Tail(buffer), typ, nullable)
       IN  IF IsPanic(r.err) THEN r ELSE Got(r.val, r.rest)

\* ---- the values written and the buffers received
\* the longest list and the longest string written
MaxList == 2
MaxString == 2
Strings == UNION {[1..n -> {97, 98}] : n \in 0..MaxString}
Uuids == {[i \in 1..16 |-> i], [i \in 1..16 |-> 255]}
Int32s == {-2147483647 - 1, -65536, -256, -1, 0, 1, 127, 128, 256, 65536, 16777216, 2147483647}
BigInts ==
  {-32768, -32767, -257, -256, -255, -129, -128, -127, -1, 0, 1, 127, 128, 255, 256,
   32767, 32768, 65535, 8388607, 8388608, 2147483647}
Scalars ==
  {Nil} \cup {Val("bool", b) : b \in BOOLEAN} \cup {Val("uint8", n) : n \in {0, 1, 255}}
  \cup {Val("int16", n) : n \in {-32768, -1, 0, 1, 32767}}
  \cup {Val("int32", n) : n \in Int32s} \cup {Val("int64", n) : n \in Int32s}
  \cup {Val("bigint", n) : n \in BigInts}
  \cup {Val("float32", f) : f \in Floats} \cup {Val("float64", f) : f \in Floats}
  \cup {Val("string", s) : s \in Strings} \cup {Val("uuid", u) : u \in Uuids}
\* what the lists, maps, steps and traversers of the model hold
Elems == {Nil, Val("int32", 1), Val("int64", -1), Val("string", <<97>>)}
Lists == {Val("list", l) : l \in UNION {[1..n -> Elems] : n \in 0..MaxList}}
        \cup {Val("list", <<Val("list", <<Val("int32", 1)>>), Nil>>)}
Maps == {Val("map", m) : m \in UNION {[K -> Elems] : K \in SUBSET {KeyA, KeyB}}}
Instructions ==
  {<<>>, <<[operator |-> <<86>>, arguments |-> <<>>]>>,
   <<[operator |-> <<86>>, arguments |-> <<>>],
     [operator |-> <<104>>, arguments |-> <<Val("string", <<97>>), Val("int32", 1)>>]>>}
Bytecodes ==
  {Val("bytecode", [stepInstructions |-> st, sourceInstructions |-> so]) :
     st \in Instructions, so \in Instructions}
Traversers == {Val("traverser", [bulk |-> b, value |-> e]) : b \in {1, 2}, e \in Elems}
GoValues == Scalars \cup Lists \cup Maps \cup Bytecodes \cup Traversers
\* values of the integral Go types that have no GraphBinary type of their own
Integrals ==
  {Val("int", n) : n \in Int32s} \cup {Val("uint32", n) : n \in {0, 1, 65536, 2147483647}}
  \cup {Val("uint16", n) : n \in {0, 1, 65535}} \cup {Val("int8", -1), Val("uint64", 1)}

\* the DataType of the type of a value
TypeCode(val) ==
  CASE val.t = "nil" -> NullType
    [] val.t = "bool" -> BooleanType
    [] val.t = "uint8" -> ByteType
    [] val.t = "int16" -> ShortType
    [] val.t = "int32" -> IntType
    [] val.t = "int64" -> LongType
    [] val.t = "bigint" -> BigIntegerType
    [] val.t = "float32" -> FloatType
    [] val.t = "float64" -> DoubleType
    [] val.t = "string" -> StringType
    [] val.t = "uuid" -> UUIDType
    [] val.t = "list" -> ListType
    [] val.t = "map" -> MapType
    [] val.t = "bytecode" -> BytecodeType
    [] val.t = "traverser" -> TraverserType

\* the numeric types, each with the bytes of the value 5
Numeric ==
  {<<IntType, <<0, 0, 0, 5>>>>, <<LongType, <<0, 0, 0, 0, 0, 0, 0, 5>>>>,
   <<ShortType, <<0, 5>>>>, <<ByteType, <<5>>>>, <<FloatType, <<63, 128, 0, 0>>>>,
   <<DoubleType, <<63, 240, 0, 0, 0, 0, 0, 0>>>>, <<BigIntegerType, <<0, 0, 0, 1, 5>>>>}
\* a length field
Minus1 == <<255, 255, 255, 255>>
Length(n) == <<0, 0, 0, n>>
\* buffers received: a null of every type, values whose flag has other bits,
\* values cut short and lengths that are negative or too large, and a
\* map that holds a null
NullBuffers == {<<typ, valueFlagNull>> : typ \in Readable}
FlagBuffers ==
  {<<n[1], flag>> \o n[2] : n \in Numeric, flag \in {2, 3, 16, 255}}
  \cup {<<StringType, 16>> \o Length(1) \o <<97>>}
ShortBuffers ==
  {<<n[1], valueFlagNone>> \o SubSeq(n[2], 1, k) :
     n \in {m \in Numeric : m[1] # BigIntegerType}, k \in {0, 1}}
  \cup {<<IntType, valueFlagNone, 17, 34, 51>>, <<UUIDType, valueFlagNone, 1, 2, 3>>,
        <<UUIDType, valueFlagNone>>}
LengthBuffers ==
  {<<typ, valueFlagNone>> \o Minus1 \o rest :
     typ \in {StringType, ListType, MapType, BigIntegerType}, rest \in {<<>>, <<97>>}}
  \cup {<<typ, valueFlagNone>> \o Length(2) \o rest :
          typ \in {StringType, BigIntegerType}, rest \in {<<>>, <<97>>}}
  \cup {<<typ, valueFlagNone>> \o Length(2) \o rest :
          typ \in {ListType, MapType}, rest \in {<<>>, <<NullType, 1>>}}
MapWithNull ==
  <<MapType, valueFlagNone>> \o Length(1)
    \o <<StringType, valueFlagNone>> \o Length(1) \o <<97>> \o <<NullType, 1>>
\* the data of a response frame: a list of traversers of bulk 1 and 3
Bulk(n) == <<0, 0, 0, 0, 0, 0, 0, n>>
TraverserBuffers ==
  {<<ListType, valueFlagNone>> \o Length(1) \o <<TraverserType, valueFlagNone>> \o Bulk(b)
     \o <<IntType, valueFlagNone, 0, 0, 0, 5>> : b \in {1, 3}}
  \cup {<<ListType, valueFlagNone>> \o Length(2)
          \o <<TraverserType, valueFlagNone>> \o Bulk(1) \o <<IntType, valueFlagNone, 0, 0, 0, 5>>
          \o <<TraverserType, valueFlagNone>> \o Bulk(3) \o <<StringType, valueFlagNone>>
          \o Length(1) \o <<97>>}
GoodBuffers ==
  {<<n[1], valueFlagNone>> \o n[2] : n \in Numeric}
  \cup {MapWithNull, <<StringType, valueFlagNone>> \o Length(1) \o <<97>>}
  \cup TraverserBuffers
Received == NullBuffers \cup FlagBuffers \cup ShortBuffers \cup LengthBuffers \cup GoodBuffers
\* buffers received where the reader expects no value flag: {type_code}{value}
Bare ==
  {<<b[1]>> \o SubSeq(b, 3, Len(b)) : b \in ShortBuffers \cup LengthBuffers \cup GoodBuffers}
\* bytes that follow a value in the buffer
Trailers == {<<>>, <<7>>}

NoRead == [val |-> NoValue, err |-> "nil", rest |-> <<>>]
codecOther == <<rsVars, connVars, taskVars, histVars, settings, pool, driver, journal,
                sessionVars, syncMap, traversal>>
Codec(step, value, bytes, werr, call, nullable, result) ==
  [step |-> step, value |-> value, bytes |-> bytes, werr |-> werr, call |-> call,
   nullable |-> nullable, out |-> result, added |-> <<>>]

\* the Result made of a value read, as addResult sees it: a slice or not, and
\* for each element of a slice whether its type is *Traverser
AsElement(v) == IF v.t = "*traverser" THEN Trav(v.v.bulk, v.v.value) ELSE Plain(v)
AsResult(val) ==
  IF val.t = "list" THEN ListResult([i \in 1..Len(val.v) |-> AsElement(val.v[i])])
  ELSE SingleResult(Plain(val))

\* serializerWrite(value, buffer) of the value given
CodecWrite ==
  /\ codec.step \in {"value", "integral"}
  /\ \E ord \in {"ab", "ba"} :
       LET w == serializerWrite(codec.value, ord)
       IN  codec' = [codec EXCEPT !.step = IF @ = "value" THEN "written" ELSE "encoded",
                                  !.bytes = w.bytes, !.werr = w.err]
  /\ UNCHANGED codecOther

\* serializerRead(buffer) of what was written, other bytes following or not
CodecReadBack ==
  /\ codec.step = "written" /\ codec.werr = "nil"
  /\ \E extra \in Trailers :
       codec' = [codec EXCEPT !.step = "read", !.bytes = @ \o extra, !.call = "read",
                              !.out = serializerRead(codec.bytes \o extra)]
  /\ UNCHANGED codecOther

\* serializerRead(buffer) of a buffer received
CodecRead ==
  /\ codec.step = "buffer"
  /\ codec' = [codec EXCEPT !.step = "decoded", !.call = "read",
                            !.out = serializerRead(codec.bytes)]
  /\ UNCHANGED codecOther

\* readValue(buffer, typ, nullable) of a buffer received, for the type of
\* its first byte: nullable when the buffer has a value flag
CodecReadValue ==
  /\ codec.step \in {"buffer", "bare"}
  /\ codec' = [codec EXCEPT !.step = "decoded", !.call = "readValue",
                            !.out = readValue(codec.bytes, codec.bytes[1], codec.nullable)]
  /\ UNCHANGED codecOther

\* addResult of the value read: the Results it sends on the channel
CodecAddResult ==
  /\ codec.step = "decoded" /\ codec.call = "read" /\ codec.out.err = "nil"
  /\ codec.out.val \notin {Nil, NoValue}
  /\ codec' = [codec EXCEPT !.step = "added", !.added = Flatten(AsResult(codec.out.val))]
  /\ UNCHANGED codecOther

InitCodec ==
  /\ newChannelResultSet
  /\ TaskInit({}, [t \in Tasks |-> "off"])
  /\ state = "initialized"
  /\ internalMap = [k \in RequestIds |-> 0]
  /\ NoDriver /\ NoSession /\ NoMap /\ NoTraversal
  /\ \/ \E v \in GoValues : codec = Codec("value", v, <<>>, "nil", "none", TRUE, NoRead)
     \/ \E v \in Integrals : codec = Codec("integral", v, <<>>, "nil", "none", TRUE, NoRead)
     \/ \E b \in Received : codec = Codec("buffer", Nil, b, "nil", "none", TRUE, NoRead)
     \/ \E b \in Bare : codec = Codec("bare", Nil, b, "nil", "none", FALSE, NoRead)

NextCodec == CodecWrite \/ CodecReadBack \/ CodecRead \/ CodecReadValue \/ CodecAddResult

SpecCodec == InitCodec /\ [][NextCodec]_vars


\* ---------------------------------------------------------- synchronizedMap
\* The calls of synchronizedMap at the grain of its mutex: a task calls
\* store, load, delete, size or synchronizedRange, waits in Lock, runs the
\* body while it holds syncLock and releases it in the deferred Unlock. The
\* callers store, load, delete and count under their own request id; the
\* reader task deletes and scans.
\* calls made by one task, at most
MaxMapOps == 1
MapTasks == Callers \cup {"reader"}
NoCall == [name |-> "none", key |-> 0]
MapCalls(t) ==
  IF t \in Callers
    THEN {[name |-> n, key |-> requestID(t)] : n \in {"store", "load", "delete"}}
         \cup {[name |-> "size", key |-> 0]}
    ELSE {[name |-> "synchronizedRange", key |-> 0]}
         \cup {[name |-> "delete", key |-> k] : k \in RequestIds}
mapOther == <<rsVars, connVars, taskVars, histVars, settings, pool, driver, journal,
              sessionVars, codec, traversal>>

\* s.syncLock.Lock() returns when no task holds the mutex
TryLock_noMutex(lock) == TRUE
TryLock(lock) == lock = "free"

\* a task calls a method of the map
mapCall(t) ==
  /\ syncMap.pc[t] = "idle" /\ syncMap.left[t] > 0
  /\ \E c \in MapCalls(t) :
       syncMap' = [syncMap EXCEPT !.pc[t] = "Lock", !.call[t] = c, !.left[t] = @ - 1]
  /\ UNCHANGED mapOther

\* s.syncLock.Lock()
mapLock(t) ==
  /\ syncMap.pc[t] = "Lock"
  /\ TryLock(syncMap.syncLock)
  /\ syncMap' = [syncMap EXCEPT !.pc[t] = "locked", !.syncLock = t]
  /\ UNCHANGED mapOther

\* store: s.internalMap[key] = value
mapStore(t) ==
  /\ syncMap.pc[t] = "locked" /\ syncMap.call[t].name = "store"
  /\ LET key == syncMap.call[t].key IN
     syncMap' = [syncMap EXCEPT !.internalMap = store(@, key, key),
                                !.last[key] = "store",
                                !.pc[t] = "Unlock"]
  /\ UNCHANGED mapOther

\* load: return s.internalMap[key]
mapLoad(t) ==
  /\ syncMap.pc[t] = "locked" /\ syncMap.call[t].name = "load"
  /\ syncMap' = [syncMap EXCEPT !.ret[t] = load(syncMap.internalMap, syncMap.call[t].key),
                                !.pc[t] = "Unlock"]
  /\ UNCHANGED mapOther

\* delete: delete(s.internalMap, key)
mapDelete(t) ==
  /\ syncMap.pc[t] = "locked" /\ syncMap.call[t].name = "delete"
  /\ LET key == syncMap.call[t].key IN
     syncMap' = [syncMap EXCEPT !.internalMap = delete(@, key),
                                !.last[key] = "delete",
                                !.pc[t] = "Unlock"]
  /\ UNCHANGED mapOther

\* size: return len(s.internalMap)
mapSize(t) ==
  /\ syncMap.pc[t] = "locked" /\ syncMap.call[t].name = "size"
  /\ syncMap' = [syncMap EXCEPT !.ret[t] = size(syncMap.internalMap), !.pc[t] = "Unlock"]
  /\ UNCHANGED mapOther

\* synchronizedRange: for k, v := range s.internalMap { f(k, v) }, one entry
\* in each step, in an order that is not specified; f does not call the map
mapRange(t) ==
  /\ syncMap.pc[t] = "locked" /\ syncMap.call[t].name = "synchronizedRange"
  /\ LET todo == {k \in RequestIds : load(syncMap.internalMap, k) # 0} \ syncMap.visited
     IN  IF todo = {}
           THEN syncMap' = [syncMap EXCEPT !.pc[t] = "Unlock"]
           ELSE \E k \in todo : syncMap' = [syncMap EXCEPT !.visited = @ \cup {k}]
  /\ UNCHANGED mapOther

\* defer s.syncLock.Unlock(), and the return to the caller
mapUnlock(t) ==
  /\ syncMap.pc[t] = "Unlock"
  /\ syncMap' = [syncMap EXCEPT !.pc[t] = "idle", !.syncLock = "free", !.call[t] = NoCall,
                                !.ret[t] = 0,
                                !.visited = IF syncMap.call[t].name = "synchronizedRange"
                                              THEN {} ELSE @]
  /\ UNCHANGED mapOther

\* a connection whose map holds the ResultSets of some requests already
InitMap ==
  /\ newChannelResultSet
  /\ TaskInit({}, [t \in Tasks |-> "off"])
  /\ state = "established"
  /\ internalMap = [k \in RequestIds |-> 0]
  /\ NoDriver /\ NoSession /\ NoCodec /\ NoTraversal
  /\ \E present \in SUBSET RequestIds :
       syncMap = [step |-> "on",
                  internalMap |-> [k \in RequestIds |-> IF k \in present THEN k ELSE 0],
                  initial |-> present,
                  syncLock |-> "free",
                  pc |-> [t \in MapTasks |-> "idle"],
                  call |-> [t \in MapTasks |-> NoCall],
                  ret |-> [t \in MapTasks |-> 0],
                  left |-> [t \in MapTasks |-> MaxMapOps],
                  visited |-> {},
                  last |-> [k \in RequestIds |-> "none"]]

mapStep(t) ==
  \/ mapCall(t) \/ mapLock(t) \/ mapStore(t) \/ mapLoad(t) \/ mapDelete(t)
  \/ mapSize(t) \/ mapRange(t) \/ mapUnlock(t)
NextMap == \E t \in MapTasks : mapStep(t)
SpecMap == InitMap /\ [][NextMap]_vars
\* the goroutine scheduler runs every task that can take a step
FairSpecMap == SpecMap /\ \A t \in MapTasks : WF_vars(mapStep(t))

\* ================================================================== claims
IsPrefix(s, q) == Len(s) <= Len(q) /\ \A i \in 1..Len(s) : s[i] = q[i]

\* C1: with two requests in flight on one connection and their frames
\* interleaved in any way, each caller receives only values of its own
\* request, in the order the frames arrived; All() returns exactly the values
\* of all its frames, after the final frame; and a ResultSet whose final
\* frame was a success ends closed without error.
C1_PerRequestOrder ==
  \A t \in Callers :
    LET k == requestID(t) IN
    /\ IsPrefix(received[t], arrived[k])
    /\ \A i \in 1..Len(received[t]) : received[t][i].value[1] = k
    /\ pc[t] = "All_done" => (results[t] = arrived[k] /\ k \in finished)
    /\ pc[t] = "Next_done" => (received[t] = arrived[k] /\ k \in finished)
    /\ (pc[t] \notin {"Close", "Close_lock", "sendSignal", "Close_done"} /\ closed[k])
         => k \in finished
    /\ (k \in processed /\ err[k] = "nil") => closed[k]

\* both callers have drained their ResultSet: A with All() all MaxItems
\* values, which took more than one frame, and B with IsEmpty() and one() at
\* least two
C1_BothDrained ==
  /\ pc["A"] = "All_done" /\ pc["B"] = "Next_done"
  /\ Len(results["A"]) = MaxItems /\ Len(received["B"]) >= 2
  /\ processed = {1, 2} /\ err[1] = "nil" /\ err[2] = "nil"

\* C2: from the store in connection.write until the terminal frame has been
\* processed the map holds the ResultSet of that write under the request id
\* (a partial frame keeps it); the terminal frame removes it; before the write
\* there is none.
C2_OneEntryUntilTerminal ==
  \A t \in Callers :
    LET k == requestID(t) IN
    /\ (pc[t] # "write" /\ k \notin processed) => load(internalMap, k) = k
    /\ k \in processed => load(internalMap, k) = 0
    /\ pc[t] = "write" => load(internalMap, k) = 0

\* request 1 has had its terminal frame processed and is gone from the map,
\* request 2 is after a partial frame and still in it
C2_PartialKeepsTerminalRemoves ==
  /\ 1 \in processed /\ load(internalMap, 1) = 0
  /\ 2 \notin finished /\ arrived[2] # <<>> /\ load(internalMap, 2) = 2
  /\ pc["reader"] = "read"

\* C3: the ResultSet is in the map before the request is handed to
\* protocol.write, so no response frame is ever dropped as an unknown id.
C3_NoFrameDropped == dropped = {}

\* a frame of request 1 was dispatched to its ResultSet while the caller had
\* only just returned from write
C3_FrameBeforeFirstDrain ==
  /\ pc["A"] = "w_written" /\ enqueued[1] # <<>> /\ load(internalMap, 1) = 1

\* C4: once a ResultSet is closed no value is sent to its channel any more,
\* and an addResult that comes later is dropped without failing.
C4_NoEnqueueAfterTerminal ==
  /\ [][\A k \in RequestIds : closed[k] => enqueued'[k] = enqueued[k]]_vars
  /\ [](panic # "send on closed channel")

\* C5: IsEmpty returns true only when the ResultSet is closed and its queue
\* holds no item (and from then on both stay so), never while it is open; when
\* it finds an item in the queue it returns false.
C5_IsEmptyHardPredicate ==
  /\ [](\A t \in Consumers :
          isEmptyRet[t] = "true" => (closed[cur(t)] /\ Len(channel[cur(t)]) = 0))
  /\ [][\A t \in Consumers :
          (pc[t] = "IsEmpty" /\ pc'[t] # "IsEmpty" /\ Len(channel[cur(t)]) # 0)
            => (pc'[t] = Return(t, "IsEmpty") /\ isEmptyRet'[t] = "false")]_vars

\* IsEmpty has returned true after values went through the queue
C5_TrueAfterDrain ==
  /\ isEmptyRet["c1"] = "true" /\ pc["c1"] = "c_idle"
  /\ enqueued[1] # <<>> /\ received["c1"] = enqueued[1]

\* C6: a consumer waiting in IsEmpty returns once the state has changed (a
\* value was added or the ResultSet was closed), also when the change came
\* after it released channelMux and before it registered its wait signal.
C6_WaiterReturns ==
  \A t \in Consumers :
    (pc[t] \in {"waitForSignal", "waitForSignal_recv"}
       /\ (closed[cur(t)] \/ Len(channel[cur(t)]) # 0))
    ~> (pc[t] \notin {"waitForSignal", "waitForSignal_recv"})

\* C7: IsEmpty called on a closed ResultSet with an empty queue returns true
\* at once: it does not go on to wait for a signal.
C7_ClosedEmptyReturnsAtOnce ==
  [][\A t \in Consumers :
       (pc[t] = "IsEmpty" /\ pc'[t] # "IsEmpty"
          /\ closed[cur(t)] /\ Len(channel[cur(t)]) = 0)
       => (pc'[t] = Return(t, "IsEmpty") /\ isEmptyRet'[t] = "true")]_vars

\* the consumer closed the untouched ResultSet, then called IsEmpty, which
\* returned true
C7_IsEmptyAfterClose ==
  /\ calls["c1"] = <<"Close", "IsEmpty">> /\ pc["c1"] = "c_idle"
  /\ isEmptyRet["c1"] = "true"
  /\ pc["producer"] = "p_idle" /\ served[1] = 0

\* C8: a Close on a ResultSet that is already closed returns without changing
\* the closed flag, the queue or the error and without a panic; the first
\* Close leaves the ResultSet closed and, when a waiter had registered its
\* signal, has woken it (the waiter is back in IsEmpty, no signal is left).
C8_CloseIdempotent ==
  [][\A t \in Consumers \cup {"producer"} :
       LET k == cur(t) IN
       /\ (pc[t] = "Close" /\ pc'[t] # "Close" /\ closed[k])
            => /\ pc'[t] = Return(t, "Close")
               /\ closed'[k] /\ channel'[k] = channel[k] /\ err'[k] = err[k]
               /\ panic' = "none"
       /\ (pc[t] \in {"sendSignal", "sendSignal_send"} /\ ret[t] = "Close"
             /\ pc'[t] = Return(t, "Close"))
            => /\ closed'[k] /\ waitSignal'[k] = "nil"
               /\ panic' = "none"
               /\ waitSignal[k] # "nil" => pc'[waitSignal[k]] = "IsEmpty"]_vars

\* the consumer's IsEmpty returned after the producer's Close (nothing was
\* ever added), then the consumer called Close itself, the second Close of the
\* ResultSet, which has returned
C8_SecondCloseAfterWake ==
  /\ calls["c1"] = <<"IsEmpty", "Close">> /\ pc["c1"] = "c_idle"
  /\ pc["producer"] = "p_done" /\ served[1] = 0
  /\ closed[1] /\ panic = "none"

\* C9: All() returns only when the ResultSet is closed, with every value that
\* was sent to the channel, in order; and when the ResultSet ended with an
\* error the caller of All is given that error.
C9_AllReturnsItemsAndError ==
  \A t \in Callers :
    LET k == requestID(t) IN
    pc[t] = "All_done"
      => /\ closed[k] /\ results[t] = enqueued[k]
         /\ err[k] # "nil" => ToListError(t) # "nil"

\* C10: the connection state only moves forward, and a connection that is
\* closed or closedDueToError keeps that state.
StateRank(st) ==
  IF st = "initialized" THEN 1 ELSE IF st = "established" THEN 2 ELSE 3
C10_StateMonotonic ==
  [][/\ StateRank(state') >= StateRank(state)
     /\ state \in {"closed", "closedDueToError"} => state' = state]_vars

\* C11: when the transport of a connection fails and its error handling
\* runs, every ResultSet that is in the map at that moment ends closed with
\* the transport error, and its caller is not left inside All, one or
\* IsEmpty: the call it was in returns.
InCall(t) ==
  pc[t] \in {"All", "one", "IsEmpty", "waitForSignal", "waitForSignal_recv"}
C11_FailedResultSetsEnd ==
  \A t \in Callers :
    LET k == requestID(t) IN
    (pc["reader"] = "failAll" /\ load(internalMap, k) # 0)
      ~> (closed[k] /\ err[k] = "transportError" /\ ~InCall(t))

\* C12: the number of entries of the map, as activeResults() reports it,
\* equals the number of open ResultSets that write has made on the connection
\* (a ResultSet the reader is ending counts as open until the reader has
\* removed its entry); also after a failed protocol.write and after a Close.
activeResults == size(internalMap)
Created == {requestID(t) : t \in {c \in Callers : pc[c] \notin {"off", "write"}}}
Ending(k) ==
  /\ frame.id = k /\ frame.status \notin {0, 206}
  /\ pc["reader"] \in {"sendSignal", "sendSignal_send", "h_delete"}
C12_SizeIsOpenCount ==
  activeResults = Cardinality({k \in Created : ~closed[k] \/ Ending(k)})

\* C13: when protocol.write fails in connection.write, only the caller of
\* that write sees it: the state of the connection, every ResultSet (flags,
\* error, queued items), the entries of the other requests and the position
\* of every other task are as before.
C13_WriteFailureIsLocal ==
  [][\A t \in Callers :
       (pc[t] = "write_protocol" /\ pc'[t] = "w_failed")
         => /\ state' = state /\ protocolCloses' = protocolCloses
            /\ channel' = channel /\ closed' = closed /\ err' = err
            /\ \A k \in RequestIds \ {requestID(t)} :
                 load(internalMap', k) = load(internalMap, k)
            /\ \A u \in Tasks \ {t} : pc'[u] = pc[u]
            /\ panic' = "none"]_vars

\* the write of one caller has failed while the ResultSet of the other
\* caller's request holds queued items, and the other caller then received
\* every value of its request
C13_OtherRequestServed ==
  \E t \in Callers : \E u \in Callers \ {t} :
    /\ pc[t] = "w_failed" /\ requestID(t) \notin sent
    /\ pc[u] = "All_done" /\ Len(results[u]) = MaxItems
    /\ err[requestID(u)] = "nil" /\ state = "established"

\* the handle has been made
Made == pc["user"] \notin {"off", "NewDriverRemoteConnection", "d_failed"}
\* the requests in flight on a connection of the pool
Load(c) == Cardinality({k \in PoolRequestIds : c.results[k] # 0})
\* the step in which the pool selects the connection of a write
Selects == pc["user"] = "pool_write" /\ pc'["user"] = "connection_write"

\* C14: the pool never holds more connections than its maximum: not at
\* construction, where an initial number above the maximum is reduced to it,
\* and not after writes, failures of connections and retirements.
C14_PoolWithinMaximum ==
  Made => /\ Len(pool.connections) <= pool.maximum
          /\ pool.opened >= Len(pool.connections)

\* the caller asked for more initial connections than the maximum; the pool
\* is full after a failed connection was retired and another one opened
C14_FullAfterRetirement ==
  /\ settings.InitialConcurrentConnections > settings.MaximumConcurrentConnections
  /\ settings.Session = "" /\ pool.maximum >= 2
  /\ Len(pool.connections) = pool.maximum
  /\ pool.opened > pool.maximum

C16_LeastLoadedSelected ==
  [][(Selects /\ ~journal'.last.opened)
       => LET i == IndexOf(pool', journal'.last.conn) IN
          /\ i # 0
          /\ \A j \in 1..Len(pool'.connections) :
               Load(pool'.connections[i]) <= Load(pool'.connections[j])]_vars

\* the second connection of the list was selected because the first one has
\* a request in flight
C16_SecondOfTwoSelected ==
  /\ pc["user"] = "connection_write" /\ ~journal.last.opened
  /\ Len(pool.connections) = 2
  /\ journal.last.conn = pool.connections[2].id
  /\ Load(pool.connections[1]) = 1 /\ Load(pool.connections[2]) = 0

\* C17: connection.write is never run on a connection that is
\* closedDueToError: the pool retires such a connection and the write goes to
\* another one.
C17_NoWriteOnFailedConnection ==
  journal.last.connState # "closedDueToError"

\* C18: when DriverRemoteConnection.Close has closed the connections, every
\* connection of the pool is closed and no ResultSet is left open; and a
\* Close on a handle that is already closed leaves the pool as it was and
\* returns no error from client.Close().
SubmitOps == {"Submit", "submitBytecode", "commit", "rollback"}
C18_PoolCloseIdempotent ==
  (journal.last.op = "Close" /\ pc["user"] = "d_idle"
     /\ journal.last.outcome \in {"nil", "err0101"})
    => /\ \A i \in 1..Len(pool.connections) :
            /\ pool.connections[i].state # "established"
            /\ pool.connections[i].protocolCloses > 0
       /\ \A k \in PoolRequestIds : pool.resultSets[k] \notin {"open", "unsent"}
       /\ journal.last.wasClosed
            => (pool = journal.last.before /\ journal.last.outcome = "nil")

\* C19: the pool of a handle made with a non-empty session id has the maximum
\* 1, whatever maximum and initial number the caller set, and never holds
\* more than one connection.
C19_SessionPoolOfOne ==
  (Made /\ settings.Session # "")
    => (pool.maximum = 1 /\ Len(pool.connections) <= 1)

\* a session handle whose caller asked for two or more connections has sent
\* two requests, both on its one connection
C19_SessionTwoRequests ==
  /\ Made /\ settings.Session # ""
  /\ settings.MaximumConcurrentConnections >= 2
  /\ settings.InitialConcurrentConnections >= 2
  /\ journal.sent = 2 /\ pool.opened = 1
  /\ Len(pool.connections) = 1 /\ Load(pool.connections[1]) = 2

\* C20: a Submit, submitBytecode, commit or rollback called on a handle after
\* Close() does not reach the pool: it returns the usage error and no
\* connection.write is run for it.
C20_SubmitAfterCloseRefused ==
  (journal.last.wasClosed /\ journal.last.op \in SubmitOps)
    => /\ pc["user"] \notin {"pool_write", "connection_write"}
       /\ pc["user"] = "d_idle"
            => (journal.last.outcome = "err0203" /\ journal.last.connState = "none")

\* the connections the pools of the handles have opened
RECURSIVE ConnectionsMade(_)
ConnectionsMade(hs) ==
  IF hs = <<>> THEN 0
  ELSE Head(hs).client.connections.opened + ConnectionsMade(Tail(hs))

\* C21: CreateSession fails with a usage error when more than one session id
\* is passed or when the receiver is itself a session, and then no connection
\* is created and the list of spawned sessions is unchanged; a successful
\* CreateSession appends exactly one new handle, a session handle, to the
\* list of the receiver.
C21_CreateSessionChecksThenAppends ==
  [][out'.op = "CreateSession" =>
       LET h == out'.h
           n == Len(handles) + 1
       IN  /\ Len(out'.ids) > 1 => out'.err = "err0201"
           /\ (Len(out'.ids) <= 1 /\ isSession(handles[h])) => out'.err = "err0202"
           /\ out'.err # "nil" =>
                /\ handles' = handles
                /\ ConnectionsMade(handles') = ConnectionsMade(handles)
           /\ out'.err = "nil" =>
                /\ Len(handles') = n
                /\ handles'[h].spawnedSessions = Append(handles[h].spawnedSessions, n)
                /\ \A g \in Handles \ {h} : handles'[g] = handles[g]
                /\ isSession(handles'[n])]_vars

\* the elements of a sequence
Range(list) == {list[i] : i \in 1..Len(list)}
\* the position of the last occurrence of x in a sequence, 0 when there is none
LastIndex(list, x) ==
  IF x \in Range(list)
    THEN CHOOSE i \in 1..Len(list) : list[i] = x /\ \A j \in (i + 1)..Len(list) : list[j] # x
    ELSE 0

\* C22: Close() on a handle closes every session handle spawned from it before
\* it closes the client of the handle itself; afterwards its list of spawned
\* sessions is empty, each of those session handles is marked closed, and the
\* transactions bound to them report IsOpen() == false.
C22_CloseClosesSessionsFirst ==
  [][out'.op = "Close" =>
       LET h == out'.h
           spawned == Range(handles[h].spawnedSessions)
       IN  /\ handles'[h].spawnedSessions = <<>>
           /\ handles'[h].isClosed
           /\ clientCloses'[Len(clientCloses')] = h
           /\ \A s \in spawned :
                /\ handles'[s].isClosed
                /\ LastIndex(clientCloses', s) > Len(clientCloses)
                /\ LastIndex(clientCloses', s) < Len(clientCloses')
           /\ \A i \in 1..Len(txs) :
                txs[i].session \in spawned => ~IsOpen(handles', txs'[i])]_vars

\* Close() of the first handle was called while two transactions begun on it
\* were open
C22_ParentClosedWithTwoOpen ==
  /\ out.op = "Close" /\ out.h = 1
  /\ clientCloses = <<2, 3, 1>>
  /\ Len(txs) = 2
  /\ \A i \in 1..2 : txs[i].isOpen /\ txs[i].session = i + 1 /\ ~IsOpen(handles, txs[i])

C24_TransactionsIndependent ==
  [][\A i \in 1..Len(txs) :
       IsOpen(handles, txs[i]) =>
         /\ (out'.op \in {"Commit", "Rollback", "TxClose"} /\ out'.tx # i)
              => IsOpen(handles', txs'[i])
         /\ ~IsOpen(handles', txs'[i]) =>
              \/ out'.op \in {"Commit", "Rollback", "TxClose"} /\ out'.tx = i
              \/ out'.op = "Close" /\ out'.h = txs[i].remote]_vars

\* of two transactions begun on the first handle, the first has been
\* committed, rolled back or closed and the second is still open
C24_OneEndedOtherOpen ==
  /\ Len(txs) = 2
  /\ out.op \in {"Commit", "Rollback", "TxClose"} /\ out.tx = 1 /\ out.err = "nil"
  /\ txs[1].remote = 1 /\ txs[2].remote = 1
  /\ ~IsOpen(handles, txs[1]) /\ IsOpen(handles, txs[2])

\* C25: every request written by a client that was configured with a
\* non-empty session id carries args["session"] equal to that id and the
\* processor "session"; a request of a client without a session carries no
\* session argument.
C25_SessionInEveryRequest ==
  \A r \in requests :
    IF r.configured # ""
      THEN /\ "session" \in DOMAIN r.request.args
           /\ r.request.args["session"] = r.configured
           /\ r.request.processor = "session"
      ELSE "session" \notin DOMAIN r.request.args

\* ================================================================ codec claims
\* C26: for every value of the type universe, writing it fully qualified
\* succeeds with the type code of its type, and reading the bytes back gives
\* a value equal to it and leaves what follows them in the buffer.
C26_RoundTrip ==
  /\ codec.step \in {"written", "read"} =>
       /\ codec.werr = "nil"
       /\ codec.bytes[1] = TypeCode(codec.value)
  /\ codec.step = "read" =>
       /\ codec.out.err = "nil"
       /\ codec.out.val = codec.value
       /\ codec.out.rest \in Trailers

\* the int32 that four bytes hold in big-endian two's complement
Int32Of(b) ==
  (b[1] - (IF b[1] >= 128 THEN 256 ELSE 0)) * 16777216 + b[2] * 65536 + b[3] * 256 + b[4]

\* C27: an int32 is written as type code 0x01, value flag 0x00 and its four
\* big-endian two's-complement bytes (0 -> 00 00 00 00, 2147483647 ->
\* 7F FF FF FF, -1 -> FF FF FF FF, -2147483648 -> 80 00 00 00), and reading
\* those bytes gives the same value and consumes exactly those six bytes.
C27_Int32Encoding ==
  (codec.step \in {"written", "read"} /\ codec.value.t = "int32") =>
    LET n == codec.value.v
        b == SubSeq(codec.bytes, 3, 6)
    IN  /\ codec.werr = "nil"
        /\ codec.bytes[1] = 1 /\ codec.bytes[2] = 0
        /\ Len(codec.bytes) = IF codec.step = "written" THEN 6 ELSE 6 + Len(codec.out.rest)
        /\ \A i \in 1..4 : b[i] \in 0..255
        /\ Int32Of(b) = n
        /\ n = 0 => b = <<0, 0, 0, 0>>
        /\ n = 2147483647 => b = <<127, 255, 255, 255>>
        /\ n = -1 => b = <<255, 255, 255, 255>>
        /\ n = -2147483647 - 1 => b = <<128, 0, 0, 0>>
        /\ codec.step = "read" =>
             /\ codec.out.err = "nil"
             /\ codec.out.val = codec.value
             /\ codec.out.rest = SubSeq(codec.bytes, 7, Len(codec.bytes))

\* the smallest int32 was written and read back with a byte following it
C27_MinInt32ReadBack ==
  /\ codec.step = "read"
  /\ codec.value = Val("int32", -2147483647 - 1)
  /\ codec.bytes = <<1, 0, 128, 0, 0, 0, 7>>
  /\ codec.out.rest = <<7>>

\* the type codes of the numeric types
NumericTypes == {n[1] : n \in Numeric}

\* C28: a numeric value whose value flag is 0x01, read in a nullable context,
\* is null (the numeric zero is for non-nullable contexts only), and a null
\* stored as a map value is still null when the map is read back.
C28_NullNumericIsNull ==
  /\ (codec.step = "decoded" /\ codec.nullable /\ Len(codec.bytes) = 2
        /\ codec.bytes[1] \in NumericTypes /\ codec.bytes[2] = valueFlagNull) =>
       (codec.out.err = "nil" /\ codec.out.val = Nil)
  /\ (codec.step = "read" /\ codec.value.t = "map") =>
       (codec.out.err = "nil" /\ codec.out.val = codec.value)

\* C29: reading a fully-qualified value whose value flag has a bit other than
\* 0x01 set ends with an error, also when the bytes of a value follow the flag.
C29_UnexpectedValueFlag ==
  (codec.step = "decoded" /\ codec.nullable /\ Len(codec.bytes) >= 2
     /\ codec.bytes[1] \in Readable /\ codec.bytes[2] \notin {valueFlagNone, valueFlagNull}) =>
    (codec.out.err # "nil" /\ ~IsPanic(codec.out.err))

\* buffers whose declared length is negative or larger than what remains, or
\* that are shorter than the width of their type
Malformed == ShortBuffers \cup LengthBuffers

\* C30: reading a value whose declared length is negative or exceeds the bytes
\* that remain, or whose type is wider than the bytes that remain, ends with
\* an error, through read and through readValue.
C30_UnexpectedValueLength ==
  codec.step = "decoded" =>
    /\ (codec.nullable /\ codec.bytes \in Malformed) =>
         (codec.out.err # "nil" /\ ~IsPanic(codec.out.err))
    /\ (~codec.nullable /\ \E b \in Malformed : codec.bytes = <<b[1]>> \o SubSeq(b, 3, Len(b))) =>
         (codec.out.err # "nil" /\ ~IsPanic(codec.out.err))

\* C31: an integral value of a Go type without a GraphBinary type of its own
\* is written as Int32 when it fits [-2^31, 2^31-1], and the bytes written
\* hold the value itself.
C31_IntegralPicksInt32 ==
  (codec.step = "encoded" /\ codec.value.v >= -2147483647 - 1
     /\ codec.value.v <= 2147483647) =>
    /\ codec.werr = "nil"
    /\ Len(codec.bytes) = 6
    /\ codec.bytes[1] = IntType
    /\ codec.bytes[2] = valueFlagNone
    /\ Int32Of(SubSeq(codec.bytes, 3, 6)) = codec.value.v

\* the integer that a byte sequence holds in big-endian two's complement
RECURSIVE Magnitude(_)
Magnitude(b) == IF b = <<>> THEN 0 ELSE 256 * Magnitude(SubSeq(b, 1, Len(b) - 1)) + b[Len(b)]
TwosComplement(b) ==
  IF b = <<>> THEN 0
  ELSE IF b[1] < 128 THEN Magnitude(b)
  ELSE Magnitude(Tail(b)) - (256 - b[1]) * 256^(Len(b) - 1)

\* C32: the bytes written for a big integer n are the shortest big-endian
\* two's complement of n (none for zero, a leading 0x00 only before a byte
\* with its high bit set, no leading 0xFF before a byte with its high bit
\* set), after their length as an int32, and reading them back gives n.
C32_BigIntMinimalAndInverse ==
  (codec.step \in {"written", "read"} /\ codec.value.t = "bigint") =>
    LET n == codec.value.v
        length == Int32Of(SubSeq(codec.bytes, 3, 6))
        b == SubSeq(codec.bytes, 7, 6 + length)
    IN  /\ codec.werr = "nil"
        /\ codec.bytes[1] = BigIntegerType /\ codec.bytes[2] = valueFlagNone
        /\ length >= 0 /\ Len(codec.bytes) >= 6 + length
        /\ b = getSignedBytesFromBigInt(n)
        /\ \A i \in 1..length : b[i] \in 0..255
        /\ TwosComplement(b) = n
        /\ (n = 0) <=> (length = 0)
        /\ length >= 2 => ~(b[1] = 0 /\ b[2] < 128) /\ ~(b[1] = 255 /\ b[2] >= 128)
        /\ length = 1 => b[1] # 0
        /\ getBigIntFromSignedBytes(b) = n
        /\ codec.step = "read" =>
             /\ codec.out.err = "nil"
             /\ codec.out.val = codec.value
             /\ codec.out.rest = SubSeq(codec.bytes, 7 + length, Len(codec.bytes))

\* -32768 was written as 80 00, without the 0xFF before it, and read back
C32_LeadingFFStripped ==
  /\ codec.step = "read"
  /\ codec.value = Val("bigint", -32768)
  /\ codec.bytes = <<35, 0, 0, 0, 0, 2, 128, 0, 7>>
  /\ codec.out.val = Val("bigint", -32768)

\* C33: when the value read from a response frame is a list of traversers,
\* addResult sends one Result for each element of the list, and each Result
\* holds the value of its traverser, not the traverser.
C33_TraversersUnwrapped ==
  (codec.step = "added" /\ codec.out.val.t = "list"
     /\ \A i \in 1..Len(codec.out.val.v) : codec.out.val.v[i].t = "traverser") =>
    /\ Len(codec.added) = Len(codec.out.val.v)
    /\ \A i \in 1..Len(codec.added) :
         /\ ~codec.added[i].trav
         /\ codec.added[i].value = codec.out.val.v[i].v.value

\* ======================================================= synchronizedMap claims
\* whether the map should hold key k: the last store or delete of k that was
\* made, or what the map held at the start
Expected(k) ==
  IF syncMap.last[k] = "none" THEN k \in syncMap.initial ELSE syncMap.last[k] = "store"
Scanning(t) == syncMap.pc[t] = "locked" /\ syncMap.call[t].name = "synchronizedRange"
UnderLock ==
  /\ \A t \in MapTasks : syncMap.pc[t] \in {"locked", "Unlock"} => syncMap.syncLock = t
  /\ \A k \in RequestIds : (syncMap.internalMap[k] # 0) <=> Expected(k)
  /\ \A t \in MapTasks :
       syncMap.pc[t] = "Unlock" =>
         /\ syncMap.call[t].name = "size" =>
              syncMap.ret[t] = Cardinality({k \in RequestIds : Expected(k)})
         /\ syncMap.call[t].name = "load" =>
              syncMap.ret[t] = IF Expected(syncMap.call[t].key) THEN syncMap.call[t].key ELSE 0
         /\ syncMap.call[t].name = "synchronizedRange" =>
              syncMap.visited = {k \in RequestIds : Expected(k)}
ScanUndisturbed ==
  (\E t \in MapTasks : Scanning(t)) => syncMap'.internalMap = syncMap.internalMap

\* C34: every call on the map runs while its task holds syncLock: no two
\* tasks are inside the map together, the map holds exactly what the stores
\* and deletes made so far leave in it (the stores of different callers are
\* all there), load and size return what it holds, no store or delete
\* changes the map while a synchronizedRange is scanning it, and a task that
\* calls synchronizedRange returns from it.
C34_MapUnderOneMutex ==
  /\ []UnderLock
  /\ [][ScanUndisturbed]_vars
  /\ \A t \in MapTasks :
       (syncMap.call[t].name = "synchronizedRange") ~> (syncMap.pc[t] = "idle")

\* the reader task is in the middle of a scan of two entries while both
\* callers wait in Lock with a store
C34_StoresWaitForScan ==
  /\ Scanning("reader") /\ Cardinality(syncMap.visited) = 1
  /\ \A k \in RequestIds : syncMap.internalMap[k] # 0
  /\ \A t \in Callers : syncMap.pc[t] = "Lock" /\ syncMap.call[t].name = "store"

\* ============================================================ connection claims
\* a step of close() taken by the user task
CloseCalled == pc["user"] \in {"u_idle", "close_done", "close_error"} /\ pc'["user"] # "u_idle"
                 /\ (pc'["user"] # pc["user"] \/ ret'["user"] # ret["user"])

\* C35: close() on a connection that is not established returns the
\* connection-close error without calling protocol.close and without
\* changing the state; on an established connection it calls protocol.close
\* and ends with the state closed, whether protocol.close returned an error
\* or not, and returns what protocol.close returned.
C35_CloseByState ==
  [][/\ (CloseCalled /\ state # "established") =>
          /\ pc'["user"] = "close_error" /\ ret'["user"] = "err0101"
          /\ state' = state /\ protocolCloses' = protocolCloses
     /\ (CloseCalled /\ state = "established") => pc'["user"] = "close_protocol"
     /\ (pc["user"] = "close_protocol" /\ pc'["user"] # "close_protocol") =>
          /\ pc'["user"] = "close_state"
          /\ protocolCloses' = protocolCloses + 1
          /\ ret'["user"] \in {"nil", "closeError"}
     /\ (pc["user"] = "close_state" /\ pc'["user"] # "close_state") =>
          /\ pc'["user"] = "close_done"
          /\ state' = "closed"
          /\ ret'["user"] = ret["user"]
    ]_vars

\* a first close has called protocol.close and ended with the state closed;
\* the second close has returned the error of a connection that is not
\* established, without another protocol.close
C35_SecondCloseRefused ==
  /\ pc["user"] = "close_error" /\ ret["user"] = "err0101"
  /\ state = "closed" /\ protocolCloses = 1

\* --------------------------------------------------- ResultSet under load
\* the reader task is inside addResult with a value still to send and the
\* channel of the ResultSet at capacity
ReaderBlocked ==
  /\ Running /\ pc["reader"] = "addResult_send"
  /\ pending["reader"] # <<>> /\ ~closed[cur("reader")]
  /\ Len(channel[cur("reader")]) = ChannelSize

\* C36: backpressure does not deadlock: when the reader task is blocked in
\* addResult on a full channel and the caller of that ResultSet is calling
\* IsEmpty (to take one value next, as Traversal.Next does) or Close, the
\* blocked addResult eventually goes on.
C36_BackpressureNoDeadlock ==
  \A t \in Callers :
    (ReaderBlocked /\ cur("reader") = requestID(t) /\ pc[t] \in {"IsEmpty", "Close"})
      ~> ~ReaderBlocked

\* C37: when two tasks call Close on the same ResultSet at the same time (the
\* consumer and the task that ends the ResultSet), the channel is closed
\* exactly once: no task inside Close finds the channel already closed by the
\* other, so no Close ends in the panic of a second close(channel) and each
\* call returns.
C37_ConcurrentCloseOnce ==
  \A t \in Consumers \cup {"producer"} :
    (pc[t] = "Close_lock" /\ channelMux[cur(t)] = t) => panic # "close of closed channel"

\* C38: when several tasks are blocked in IsEmpty on the same open, empty
\* ResultSet (each has registered its wait signal and is receiving from it),
\* then once the ResultSet is closed every one of them eventually returns
\* from its wait: none stays on a signal that another waiter replaced.
AllWaiting == \A t \in Sharers : pc[t] = "waitForSignal_recv"
NoneWaiting == \A t \in Sharers : pc[t] # "waitForSignal_recv"
C38_EveryWaiterWoken ==
  []((AllWaiting /\ ~closed[1] /\ Len(channel[1]) = 0)
       => [](closed[1] => <>NoneWaiting))

\* C39: over any interleaving of close() called by the user task and
\* errorCallback() called by the reader task, protocol.close is called at
\* most once for the connection.
C39_ProtocolClosedOnce == protocolCloses <= 1

\* ------------------------------------------------------- Traversal claims
\* C40: a Traversal submits its bytecode at most once over any sequence of
\* HasNext and Next calls, and when that submit failed every HasNext or Next
\* call that has ended, the first and the later ones, has returned an error.
C40_SubmitOnceErrorKept ==
  /\ traversal.submits <= 1
  /\ (traversal.submitErr \notin {"none", "nil"} /\ traversal.ret # "none")
       => traversal.ret = "error"

====
